---- MODULE Spec2Model ----
(***************************************************************************)
(* iPayNotify: subscription lifecycle, expiry extension and notification   *)
(* dispatch of the dashboard client (Dashboard, SMSModal, PaymentModal,    *)
(* CustomerModal, messageTemplates, smsService).                           *)
(*                                                                         *)
(* Time.  An instant (a JavaScript Date) is an integer number of ticks     *)
(* since 2024-01-01T00:00Z; a day is DayLen ticks (the code's 86400000 ms).*)
(* A calendar date (the `date` columns, "YYYY-MM-DD") is a day number;     *)
(* new Date("YYYY-MM-DD") is that day's UTC midnight.  The client is       *)
(* modelled in a UTC locale (the deployment's: Ghana, GMT all year).       *)
(***************************************************************************)
EXTENDS Integers, Sequences, FiniteSets, TLC

VARIABLES
    now,            \* the wall clock, new Date()
    customers,      \* table customers: id -> row
    payments,       \* table payments: the rows, in insertion order
    customerUpdates,\* the expiry updates the customers table has applied
    smsLog,         \* every gateway call made by sendSMS, in order
    pm,             \* PaymentModal instances, one per session
    cm,             \* the CustomerModal instance
    sm,             \* the SMSModal instance
    quick,          \* Dashboard.handleQuickSMSReminder in flight
    view,           \* the last evaluation of getSubscriptionStatus
    env,            \* the build and session: the vendor of useVendor, the gateway API key
    reads,          \* the select queries the client has issued
    vendors,        \* table vendors: the rows, in insertion order
    accounts,       \* the accounts auth.signUp has created
    vm              \* the VendorModal instance

vars == <<now, customers, payments, customerUpdates, smsLog, pm, cm, sm, quick, view, env, reads,
          vendors, accounts, vm>>

----------------------------------------------------------------------------
(* Bounds *)

DayLen == 2          \* ticks per day
MaxDay == 12         \* the instants of the status evaluation lie in days 0..MaxDay

----------------------------------------------------------------------------
(* Calendar (JavaScript Date in UTC, proleptic Gregorian) *)

Years == 2024..2031

IsLeap(y) == (y % 4 = 0 /\ y % 100 # 0) \/ y % 400 = 0

YearLen(y) == IF IsLeap(y) THEN 366 ELSE 365

DaysInMonth(y, m) ==
    IF m = 2 THEN (IF IsLeap(y) THEN 29 ELSE 28)
    ELSE IF m \in {4, 6, 9, 11} THEN 30 ELSE 31

RECURSIVE YearStart(_)
YearStart(y) == IF y <= 2024 THEN 0 ELSE YearStart(y - 1) + YearLen(y - 1)

RECURSIVE MonthStart(_, _)
MonthStart(y, m) == IF m <= 1 THEN 0 ELSE MonthStart(y, m - 1) + DaysInMonth(y, m - 1)

\* the day number of the calendar date y-m-d
DayNum(y, m, d) == YearStart(y) + MonthStart(y, m) + d - 1

getFullYear(day) == CHOOSE y \in Years : YearStart(y) <= day /\ day < YearStart(y) + YearLen(y)

getMonth(day) ==
    LET y == getFullYear(day)
        r == day - YearStart(y)
    IN  CHOOSE m \in 1..12 : MonthStart(y, m) <= r /\ r < MonthStart(y, m) + DaysInMonth(y, m)

getDate(day) ==
    LET y == getFullYear(day)
    IN  day - YearStart(y) - MonthStart(y, getMonth(day)) + 1

\* new Date("YYYY-MM-DD"): the date's UTC midnight
DateOf(day) == day * DayLen

\* d.toISOString().split('T')[0]: the UTC calendar date of an instant
toISODate(t) == t \div DayLen

\* date-fns addMonths: same day of month, clamped to the end of the target
\* month; the time of day is kept
addMonths(t, amount) ==
    LET day   == t \div DayLen
        tod   == t % DayLen
        total == getFullYear(day) * 12 + (getMonth(day) - 1) + amount
        y2    == total \div 12
        m2    == (total % 12) + 1
        dim   == DaysInMonth(y2, m2)
        dom   == getDate(day)
        d2    == IF dom >= dim THEN dim ELSE dom
    IN  DayNum(y2, m2, d2) * DayLen + tod

\* Math.ceil(x / d) for integers x and d > 0
Ceil(x, d) == -((-x) \div d)

Abs(x) == IF x < 0 THEN -x ELSE x

\* Math.ceil((expiry.getTime() - now.getTime()) / (1000 * 60 * 60 * 24))
daysUntilOf(expiry, n) == Ceil(expiry - n, DayLen)

----------------------------------------------------------------------------
(* Dashboard.getSubscriptionStatus *)

\* expiryDate is the instant new Date(expiryDate) yields: the caller passes a date
\* string or a Date
getSubscriptionStatus_lateBoundary(expiryDate, n) ==
    LET daysUntil == daysUntilOf(expiryDate, n)
    IN  IF daysUntil <= 0
        THEN [status |-> "Expired", days |-> Abs(daysUntil)]
        ELSE IF daysUntil <= 3
        THEN [status |-> "Expiring Soon", days |-> daysUntil]
        ELSE [status |-> "Active", days |-> daysUntil]

getSubscriptionStatus(expiryDate, n) ==
    LET daysUntil == daysUntilOf(expiryDate, n)
    IN  IF daysUntil < 0
        THEN [status |-> "Expired", days |-> Abs(daysUntil)]
        ELSE IF daysUntil <= 3
        THEN [status |-> "Expiring Soon", days |-> daysUntil]
        ELSE [status |-> "Active", days |-> daysUntil]

----------------------------------------------------------------------------
(* Strings are sequences of one-character strings *)

Charset ==
    <<" ", "&", "+", ".", "0", "1", "2", "3", "4", "5", "6", "7", "8", "9",
      "A", "B", "C", "D", "E", "F", "G", "H", "I", "J", "K", "L", "M",
      "N", "O", "P", "Q", "R", "S", "T", "U", "V", "W", "X", "Y", "Z",
      "a", "b", "c", "d", "e", "f", "g", "h", "i", "j", "k", "l", "m",
      "n", "o", "p", "q", "r", "s", "t", "u", "v", "w", "x", "y", "z">>

charCode(ch) == CHOOSE i \in 1..Len(Charset) : Charset[i] = ch

isSpace(ch) == ch = " "

isLower(ch) == charCode(ch) >= charCode("a") /\ charCode(ch) <= charCode("z")

\* String.prototype.toUpperCase on one character
toUpperCase(ch) == IF isLower(ch) THEN Charset[charCode(ch) - charCode("a") + charCode("A")] ELSE ch

RECURSIVE trimStart(_)
trimStart(s) == IF s # <<>> /\ isSpace(Head(s)) THEN trimStart(Tail(s)) ELSE s

\* the characters of s up to its first whitespace
RECURSIVE firstToken(_)
firstToken(s) == IF s = <<>> \/ isSpace(Head(s)) THEN <<>> ELSE <<Head(s)>> \o firstToken(Tail(s))

\* s.replace(/\s+/g, '')
RECURSIVE stripSpaces(_)
stripSpaces(s) ==
    IF s = <<>> THEN <<>>
    ELSE IF isSpace(Head(s)) THEN stripSpaces(Tail(s))
    ELSE <<Head(s)>> \o stripSpaces(Tail(s))

\* s.substring(0, n)
substring0(s, n) == SubSeq(s, 1, IF Len(s) < n THEN Len(s) ELSE n)

\* s.startsWith(p)
startsWith(s, p) == Len(s) >= Len(p) /\ SubSeq(s, 1, Len(p)) = p

\* the order of ORDER BY name: by character, a prefix first
RECURSIVE strLess(_, _)
strLess(a, b) ==
    IF b = <<>> THEN FALSE
    ELSE IF a = <<>> THEN TRUE
    ELSE IF Head(a) # Head(b) THEN charCode(Head(a)) < charCode(Head(b))
    ELSE strLess(Tail(a), Tail(b))

----------------------------------------------------------------------------
(* messageTemplates *)

NoVendor == [none |-> TRUE]

DefaultBusiness == <<"Q", "a", "r", "e", "t", "e", "c", "h", " ", "I", "n", "n", "o", "v", "a", "t", "i", "v", "e">>

DefaultPhone == <<"0", "2", "4", "1", "2", "3", "4", "5", "6", "7">>

CustomerLiteral == <<"C", "u", "s", "t", "o", "m", "e", "r">>

MonthNames ==
    <<"January", "February", "March", "April", "May", "June", "July",
      "August", "September", "October", "November", "December">>

\* vendor ? {name, contact_phone, slogan} : undefined
vendorDataOf(vendor) ==
    IF vendor = NoVendor THEN NoVendor
    ELSE [name |-> vendor.name, contact_phone |-> vendor.contact_phone, slogan |-> vendor.slogan]

toOrdinalDate_lastDigit(date) ==
    LET d   == toISODate(date)
        day == getDate(d)
        suffix == IF day % 10 = 1 THEN "st"
                  ELSE IF day % 10 = 2 THEN "nd"
                  ELSE IF day % 10 = 3 THEN "rd"
                  ELSE "th"
    IN  [day |-> day, suffix |-> suffix, month |-> MonthNames[getMonth(d)], year |-> getFullYear(d)]

toOrdinalDate(date) ==
    LET d   == toISODate(date)
        day == getDate(d)
        suffix == IF day = 1 \/ day = 21 \/ day = 31 THEN "st"
                  ELSE IF day = 2 \/ day = 22 THEN "nd"
                  ELSE IF day = 3 \/ day = 23 THEN "rd"
                  ELSE "th"
    IN  [day |-> day, suffix |-> suffix, month |-> MonthNames[getMonth(d)], year |-> getFullYear(d)]

firstName(fullName) ==
    LET trimmed == trimStart(fullName)
        part    == firstToken(trimmed)
    IN  IF trimmed = <<>> THEN CustomerLiteral
        ELSE <<toUpperCase(Head(part))>> \o Tail(part)

\* vendor?.name || 'Qaretech Innovative'
businessOf(vendor) == IF vendor # NoVendor /\ vendor.name # <<>> THEN vendor.name ELSE DefaultBusiness

\* vendor?.contact_phone || '0241234567'
phoneOf(vendor) ==
    IF vendor # NoVendor /\ vendor.contact_phone # <<>> THEN vendor.contact_phone ELSE DefaultPhone

\* vendor?.slogan ? `${msg}\n\n${vendor.slogan}` : msg
sloganOf(vendor) == IF vendor # NoVendor THEN vendor.slogan ELSE <<>>

\* a rendered text: the template's fixed wording (kind) and what it interpolates
templateWelcome(fullName, endDate, vendor) ==
    [kind |-> "welcome", business |-> businessOf(vendor), name |-> firstName(fullName),
     count |-> 0, unit |-> "", date |-> toOrdinalDate(endDate), amount |-> 0,
     phone |-> phoneOf(vendor), slogan |-> sloganOf(vendor)]

templatePaymentConfirmation(fullName, totalAmount, newEndDate, vendor) ==
    [kind |-> "payment", business |-> businessOf(vendor), name |-> firstName(fullName),
     count |-> 0, unit |-> "", date |-> toOrdinalDate(newEndDate), amount |-> totalAmount,
     phone |-> phoneOf(vendor), slogan |-> sloganOf(vendor)]

templateActivation(fullName, newEndDate, vendor) ==
    [kind |-> "activation", business |-> businessOf(vendor), name |-> firstName(fullName),
     count |-> 0, unit |-> "", date |-> toOrdinalDate(newEndDate), amount |-> 0,
     phone |-> phoneOf(vendor), slogan |-> sloganOf(vendor)]

templateExpired(fullName, daysAgo, endDate, vendor) ==
    [kind |-> "expired", business |-> businessOf(vendor), name |-> firstName(fullName),
     count |-> daysAgo, unit |-> IF daysAgo > 1 THEN "days" ELSE "day",
     date |-> toOrdinalDate(endDate), amount |-> 0,
     phone |-> phoneOf(vendor), slogan |-> sloganOf(vendor)]

templateExpiring_noFallback(fullName, daysLeft, endDate, vendor) ==
    [kind |-> "expiring", business |-> businessOf(vendor), name |-> firstName(fullName),
     count |-> daysLeft, unit |-> IF daysLeft > 1 THEN "days" ELSE "day",
     date |-> toOrdinalDate(endDate), amount |-> 0,
     phone |-> phoneOf(vendor), slogan |-> sloganOf(vendor)]

templateExpiring(fullName, daysLeft, endDate, vendor) ==
    IF daysLeft <= 0
    THEN templateExpired(fullName, Abs(daysLeft), endDate, vendor)
    ELSE [kind |-> "expiring", business |-> businessOf(vendor), name |-> firstName(fullName),
          count |-> daysLeft, unit |-> IF daysLeft > 1 THEN "days" ELSE "day",
          date |-> toOrdinalDate(endDate), amount |-> 0,
          phone |-> phoneOf(vendor), slogan |-> sloganOf(vendor)]

NoDate == [day |-> 0, suffix |-> "", month |-> "", year |-> 0]

templateMaintenance(windowText, vendor) ==
    [kind |-> "maintenance", business |-> businessOf(vendor), name |-> windowText,
     count |-> 0, unit |-> "", date |-> NoDate, amount |-> 0,
     phone |-> phoneOf(vendor), slogan |-> sloganOf(vendor)]

templateNetworkUpdate(vendor) ==
    [kind |-> "update", business |-> businessOf(vendor), name |-> <<>>,
     count |-> 0, unit |-> "", date |-> NoDate, amount |-> 0,
     phone |-> phoneOf(vendor), slogan |-> sloganOf(vendor)]

\* free text typed into the form (formData.message)
customText(text) ==
    [kind |-> "custom", business |-> <<>>, name |-> text,
     count |-> 0, unit |-> "", date |-> NoDate, amount |-> 0,
     phone |-> <<>>, slogan |-> <<>>]

DefaultWindow == <<"1", "1", " ", "P", "M", " ", "-", " ", "2", " ", "A", "M">>

----------------------------------------------------------------------------
(* smsService.sendSMS: what it hands to the gateway *)

DefaultSenderId == <<"Q", "a", "r", "e", "t", "e", "c", "h">>

\* senderId ? senderId.replace(/\s+/g, '').substring(0, 11) : ARKESEL_CONFIG.senderId
finalSenderIdOf(senderId) ==
    IF senderId # <<>> THEN substring0(stripSpaces(senderId), 11) ELSE DefaultSenderId

Code233 == <<"2", "3", "3">>

\* to.replace(/\s+/g, '').replace(/^\+/, ''), then the 0 / 233 prefix rules
formatPhone_alwaysPrefix(to) ==
    LET a == stripSpaces(to)
        b == IF a # <<>> /\ Head(a) = "+" THEN Tail(a) ELSE a
    IN  IF b # <<>> /\ Head(b) = "0" THEN Code233 \o Tail(b) ELSE Code233 \o b

formatPhone_keepPlus(to) ==
    LET a == stripSpaces(to)
        c == IF a # <<>> /\ Head(a) = "0" THEN Code233 \o Tail(a) ELSE a
    IN  IF ~startsWith(c, Code233) THEN Code233 \o c ELSE c

formatPhone(to) ==
    LET a == stripSpaces(to)
        b == IF a # <<>> /\ Head(a) = "+" THEN Tail(a) ELSE a
        c == IF b # <<>> /\ Head(b) = "0" THEN Code233 \o Tail(b) ELSE b
    IN  IF ~startsWith(c, Code233) THEN Code233 \o c ELSE c

\* vendor?.name, the senderId argument of every sendSMS call of the client
senderArg(vendor) == IF vendor = NoVendor THEN <<>> ELSE vendor.name

\* one call of sendSMS and how it ended: "sent", "rejected" (the gateway or the
\* network failed) or "unconfigured" (no API key: thrown before any request)
SmsCall(by, to, message, senderId, outcome) ==
    [by |-> by, to |-> formatPhone(to), message |-> message,
     sender |-> finalSenderIdOf(senderId), outcome |-> outcome]

\* the message of the Error sendSMS throws
errorMessageOf(outcome) ==
    IF outcome = "unconfigured" THEN "SMS service not configured" ELSE "Arkesel rejected/failed"

----------------------------------------------------------------------------
(* Data of the model *)

CustIds == {"c1", "c2", "c3"}

\* a nullable column that is null
NULL == -1

VendorA ==
    [name |-> <<"A", "m", "a", " ", "N", "e", "t", " ", "&", " ", "C", "o", ".">>,
     contact_phone |-> <<"0", "2", "0", "1", "1", "1", "2", "2", "2", "3">>,
     slogan |-> <<"S", "t", "a", "y", " ", "o", "n">>]

Vendors == {NoVendor, VendorA}

NameOf ==
    [c \in CustIds |->
        CASE c = "c1" -> <<"a", "m", "a", " ", "s", "e", "r", "w", "a", "a">>
          [] c = "c2" -> <<" ", "K", "o", "f", "i", " ", " ", "m", "e", "n", "s", "a", "h">>
          [] OTHER    -> <<"y", "a", "w">>]

PhoneOf ==
    [c \in CustIds |->
        CASE c = "c1" -> <<"0", "2", "4", "1", "2", "3", "4", "5", "6", "7">>
          [] c = "c2" -> <<"+", "2", "3", "3", " ", "2", "0", " ", "1", "1", "1">>
          [] OTHER    -> <<"5", "5", "1", "2", "3", "4">>]

\* the outcomes one call of sendSMS can have in a build
Outcomes(e) == IF e.apiKey THEN {"sent", "rejected"} ELSE {"unconfigured"}

\* the rows of a table, as a sequence ordered by name (.order('name'))
RECURSIVE orderByName(_, _)
orderByName(table, ids) ==
    IF ids = {} THEN <<>>
    ELSE LET first == CHOOSE c \in ids : \A d \in ids \ {c} : strLess(table[c].name, table[d].name)
         IN  <<[id |-> first] @@ table[first]>> \o orderByName(table, ids \ {first})

\* seq.filter(keep)
RECURSIVE filterSeq(_, _)
filterSeq(seq, keep) ==
    IF seq = <<>> THEN <<>>
    ELSE (IF Head(seq).id \in keep THEN <<Head(seq)>> ELSE <<>>) \o filterSeq(Tail(seq), keep)

Range(seq) == {seq[i] : i \in 1..Len(seq)}

\* the browser sessions and their signed-in users (useAuth): s1 and s2 are admins of
\* vendor v1, s3 is a super admin, who has no vendor
Sessions == {"s1", "s2"}

AllSessions == Sessions \cup {"s3"}

NoVendorId == "none"

UserOf ==
    [s \in AllSessions |->
        CASE s = "s1" -> [id |-> "u1", role |-> "admin", vendorId |-> "v1"]
          [] s = "s2" -> [id |-> "u2", role |-> "admin", vendorId |-> "v1"]
          [] OTHER    -> [id |-> "u3", role |-> "super_admin", vendorId |-> NoVendorId]]

\* user?.vendorId || null
vendorIdOrNull(user) == IF user.vendorId # NoVendorId THEN user.vendorId ELSE NoVendorId

\* a select of the client: the table, the signed-in user it is sent for, and the value
\* of its .eq('vendor_id', ...) filter (NoVendorId: the query has no such filter)
selectOf(table, user, vendorFilter) == [table |-> table, by |-> user, vendor_id |-> vendorFilter]

\* row-level security of customers and payments: a row is readable by the users of
\* its vendor and by a super admin
visibleTo(user, row) ==
    \/ user.role = "super_admin"
    \/ user.vendorId # NoVendorId /\ row.vendor_id = user.vendorId

\* the keys of the rows of table the database returns for the select q
rowsOf(table, q) ==
    {c \in DOMAIN table :
        /\ visibleTo(q.by, table[c])
        /\ q.vendor_id # NoVendorId => table[c].vendor_id = q.vendor_id}

----------------------------------------------------------------------------
(* VendorModal (src/components/VendorModal.tsx): the state of a modal not submitted *)

VmClosed == [pc |-> "form", formData |-> [vendorName |-> "", adminEmail |-> ""],
             vendorId |-> 0, error |-> FALSE, success |-> FALSE, subs |-> 0]

----------------------------------------------------------------------------
(* SMSModal (src/components/Dashboard.tsx, second half) *)

MaxOps == 1          \* reminder operations (modal submissions, quick reminders) in one behaviour

\* the reminder operations started so far
OpsStarted ==
    sm.op + Cardinality({i \in 1..Len(smsLog) : smsLog[i].by[1] = "quick"})
          + (IF quick.pc = "send_wait" THEN 1 ELSE 0)

MessageTypes == {"custom", "maintenance", "update", "welcome", "expiring", "expired"}

EmptyText == customText(<<>>)

CustomTexts == {customText(<<"H", "i">>)}

ManualPhones == {<<"0", "2", "0", "9">>}

NoFlight == [idx |-> 0, to |-> <<>>, message |-> EmptyText]

NoResult == [kind |-> "none", success |-> FALSE, successful |-> 0, failed |-> 0, errors |-> <<>>]

SmClosed ==
    [pc |-> "closed", op |-> 0, customers |-> <<>>, selectedCustomers |-> <<>>,
     formData |-> [phone |-> <<>>, customerName |-> <<>>, message |-> EmptyText, messageType |-> "custom"],
     details |-> <<>>, successful |-> 0, failed |-> 0, errors |-> <<>>,
     inflight |-> NoFlight, stamp |-> NULL, result |-> NoResult]

\* the signed-in user of the session that shows the SMS modal: useVendor yields a
\* vendor only for a user with a vendorId
smsUser == IF env.vendor # NoVendor THEN UserOf["s1"] ELSE UserOf["s3"]

\* the modal's query: .eq('vendor_id', user.vendorId) if the user has a vendorId
\* (lines 773-782)
smsModalQuery(user) == selectOf("customers", user, vendorIdOrNull(user))

\* the rows the modal's query selects: those of .eq('is_active', true)
smsModalRows(table, user) ==
    {c \in rowsOf(table, smsModalQuery(user)) : table[c].is_active}

\* SMSModal.fetchCustomers, run once when the modal mounts
SMSFetchCustomers(ok) ==
    /\ sm.pc = "closed"
    /\ sm' = [sm EXCEPT !.pc = "form",
                        !.customers = IF ok
                                      THEN orderByName(customers, smsModalRows(customers, smsUser))
                                      ELSE <<>>]
    /\ reads' = reads \cup {smsModalQuery(smsUser)}
    /\ UNCHANGED <<vendors, accounts, vm, now, customers, payments, customerUpdates, smsLog, pm, cm, quick, view, env>>

\* onClose: the modal unmounts, its state is dropped
SMSClose ==
    /\ sm.pc = "form"
    /\ sm' = [SmClosed EXCEPT !.op = sm.op]
    /\ UNCHANGED <<vendors, accounts, vm, now, customers, payments, customerUpdates, smsLog, pm, cm, quick, view, env, reads>>

handleCustomerSelect(customerId) ==
    /\ sm.pc = "form"
    /\ OpsStarted < MaxOps
    /\ customerId \in {sm.customers[i].id : i \in 1..Len(sm.customers)}
    /\ sm' = [sm EXCEPT !.selectedCustomers =
                 IF customerId \in Range(@)
                 THEN SelectSeq(@, LAMBDA x : x # customerId)
                 ELSE Append(@, customerId)]
    /\ UNCHANGED <<vendors, accounts, vm, now, customers, payments, customerUpdates, smsLog, pm, cm, quick, view, env, reads>>

\* customers.find(c => c.id === id)
findCustomer(list, id) == list[CHOOSE i \in 1..Len(list) : list[i].id = id]

getPresetMessage(type, customerName) ==
    LET vendorData == vendorDataOf(env.vendor)
    IN  CASE type = "maintenance" -> templateMaintenance(DefaultWindow, vendorData)
          [] type = "update"      -> templateNetworkUpdate(vendorData)
          [] type = "welcome"     ->
                templateWelcome(IF customerName # <<>> THEN customerName ELSE CustomerLiteral,
                                now, vendorData)
          [] OTHER                -> EmptyText

handleMessageTypeChange(type) ==
    /\ sm.pc = "form"
    /\ OpsStarted < MaxOps
    /\ type # sm.formData.messageType
    /\ LET name == IF Len(sm.selectedCustomers) = 1
                   THEN findCustomer(sm.customers, sm.selectedCustomers[1]).name
                   ELSE sm.formData.customerName
       IN  sm' = [sm EXCEPT !.formData.messageType = type,
                            !.formData.message = getPresetMessage(type, name)]
    /\ UNCHANGED <<vendors, accounts, vm, now, customers, payments, customerUpdates, smsLog, pm, cm, quick, view, env, reads>>

\* typing into the message box (lines 1203-1207)
SMSTypeMessage(text) ==
    /\ sm.pc = "form"
    /\ OpsStarted < MaxOps
    /\ text # sm.formData.message
    /\ sm' = [sm EXCEPT !.formData.message = text]
    /\ UNCHANGED <<vendors, accounts, vm, now, customers, payments, customerUpdates, smsLog, pm, cm, quick, view, env, reads>>

\* typing into the phone box, disabled while customers are selected (lines 1156-1161)
SMSTypePhone(phone) ==
    /\ sm.pc = "form"
    /\ OpsStarted < MaxOps
    /\ Len(sm.selectedCustomers) = 0
    /\ phone # sm.formData.phone
    /\ sm' = [sm EXCEPT !.formData.phone = phone]
    /\ UNCHANGED <<vendors, accounts, vm, now, customers, payments, customerUpdates, smsLog, pm, cm, quick, view, env, reads>>

\* the per-recipient text of the bulk loop (lines 879-897)
personalizedMessage_shared(formData, customer, n, vendorData) == formData.message

personalizedMessage(formData, customer, n, vendorData) ==
    IF formData.messageType # "custom"
    THEN IF formData.messageType = "welcome"
         THEN templateWelcome(customer.name, DateOf(customer.expiry_date), vendorData)
         ELSE IF formData.messageType = "expiring" \/ formData.messageType = "expired"
         THEN LET expiry    == DateOf(customer.expiry_date)
                  daysUntil == daysUntilOf(expiry, n)
              IN  IF daysUntil < 0
                  THEN templateExpired(customer.name, Abs(daysUntil), expiry, vendorData)
                  ELSE templateExpiring(customer.name, daysUntil, expiry, vendorData)
         ELSE IF formData.messageType = "maintenance"
         THEN templateMaintenance(DefaultWindow, vendorData)
         ELSE IF formData.messageType = "update"
         THEN templateNetworkUpdate(vendorData)
         ELSE formData.message
    ELSE formData.message

\* the text for a single selected customer (lines 916-934)
personalizedMessageSingle(formData, customer, n, vendorData) ==
    IF formData.messageType # "custom"
    THEN IF formData.messageType = "welcome"
         THEN templateWelcome(customer.name, DateOf(customer.expiry_date), vendorData)
         ELSE IF formData.messageType = "expiring" \/ formData.messageType = "expired"
         THEN LET expiry    == DateOf(customer.expiry_date)
                  daysUntil == daysUntilOf(expiry, n)
              IN  IF daysUntil < 0
                  THEN templateExpired(customer.name, Abs(daysUntil), expiry, vendorData)
                  ELSE templateExpiring(customer.name, daysUntil, expiry, vendorData)
         ELSE IF formData.messageType = "maintenance"
         THEN templateMaintenance(DefaultWindow, vendorData)
         ELSE IF formData.messageType = "update"
         THEN templateNetworkUpdate(vendorData)
         ELSE formData.message
    ELSE formData.message

\* handleSubmit up to its first await; the form submits only with its required
\* fields filled (the message box, and the phone box when no customer is selected)
SMSSubmit ==
    /\ sm.pc = "form"
    /\ OpsStarted < MaxOps
    /\ sm.formData.message # EmptyText
    /\ Len(sm.selectedCustomers) = 0 => sm.formData.phone # <<>>
    /\ LET vendorData == vendorDataOf(env.vendor)
           details    == filterSeq(sm.customers, Range(sm.selectedCustomers))
           cleared    == [sm EXCEPT !.result = NoResult, !.op = @ + 1, !.details = details,
                                    !.successful = 0, !.failed = 0, !.errors = <<>>]
       IN  IF Len(sm.selectedCustomers) > 0
           THEN IF Len(details) > 1
                THEN sm' = [cleared EXCEPT
                               !.pc = "bulk_wait",
                               !.inflight = [idx |-> 1, to |-> details[1].phone,
                                             message |-> personalizedMessage(sm.formData, details[1], now, vendorData)]]
                ELSE sm' = [cleared EXCEPT
                               !.pc = "single_wait",
                               !.inflight = [idx |-> 1, to |-> details[1].phone,
                                             message |-> personalizedMessageSingle(sm.formData, details[1], now, vendorData)]]
           ELSE IF sm.formData.phone # <<>>
           THEN sm' = [cleared EXCEPT
                          !.pc = "manual_wait",
                          !.inflight = [idx |-> 0, to |-> sm.formData.phone, message |-> sm.formData.message]]
           ELSE sm' = [cleared EXCEPT
                          !.result = [NoResult EXCEPT !.kind = "error"]]
    /\ UNCHANGED <<vendors, accounts, vm, now, customers, payments, customerUpdates, smsLog, pm, cm, quick, view, env, reads>>

\* what the body of the bulk loop does with the outcome of one send
bulkTally_stopOnFailure(state, customer, outcome) ==
    IF outcome = "sent"
    THEN [state EXCEPT !.successful = @ + 1]
    ELSE [state EXCEPT !.failed = Len(state.details) - state.successful,
                       !.errors = Append(@, [name |-> customer.name, reason |-> errorMessageOf(outcome)]),
                       !.inflight.idx = Len(state.details)]

bulkTally_skipNext(state, customer, outcome) ==
    IF outcome = "sent"
    THEN [state EXCEPT !.successful = @ + 1, !.inflight.idx = @ + 1]
    ELSE [state EXCEPT !.failed = @ + 1, !.inflight.idx = @ + 1,
                       !.errors = Append(@, [name |-> customer.name, reason |-> errorMessageOf(outcome)])]

bulkTally(state, customer, outcome) ==
    IF outcome = "sent"
    THEN [state EXCEPT !.successful = @ + 1]
    ELSE [state EXCEPT !.failed = @ + 1,
                       !.errors = Append(@, [name |-> customer.name, reason |-> errorMessageOf(outcome)])]

\* the ids whose last_reminder_sent the modal updates after sending (line 947)
reminderTargets(state, log) == Range(state.selectedCustomers)

\* one awaited sendSMS of the bulk loop returns; the loop goes on to the next
\* recipient or, after the last, to setResult and the last_reminder_sent update
SMSBulkSendReturn(outcome) ==
    /\ sm.pc = "bulk_wait"
    /\ outcome \in Outcomes(env)
    /\ LET i          == sm.inflight.idx
           customer   == sm.details[i]
           vendorData == vendorDataOf(env.vendor)
           tallied    == bulkTally(sm, customer, outcome)
           j          == tallied.inflight.idx
       IN  /\ smsLog' = Append(smsLog, SmsCall(<<"sms", sm.op, i>>, sm.inflight.to, sm.inflight.message,
                                               senderArg(env.vendor), outcome))
           /\ IF j < Len(sm.details)
              THEN sm' = [tallied EXCEPT
                             !.inflight = [idx |-> j + 1, to |-> sm.details[j + 1].phone,
                                           message |-> personalizedMessage(sm.formData, sm.details[j + 1], now, vendorData)]]
              ELSE sm' = [tallied EXCEPT
                             !.pc = "update_wait", !.inflight = NoFlight, !.stamp = now,
                             !.result = [kind |-> "bulk", success |-> tallied.successful > 0,
                                         successful |-> tallied.successful, failed |-> tallied.failed,
                                         errors |-> tallied.errors]]
    /\ UNCHANGED <<vendors, accounts, vm, now, customers, payments, customerUpdates, pm, cm, quick, view, env, reads>>

\* the awaited sendSMS for a single selected customer returns
SMSSingleSendReturn(outcome) ==
    /\ sm.pc = "single_wait"
    /\ outcome \in Outcomes(env)
    /\ smsLog' = Append(smsLog, SmsCall(<<"sms", sm.op, 1>>, sm.inflight.to, sm.inflight.message,
                                        senderArg(env.vendor), outcome))
    /\ IF outcome = "sent"
       THEN sm' = [sm EXCEPT !.pc = "update_wait", !.inflight = NoFlight, !.stamp = now,
                             !.result = [NoResult EXCEPT !.kind = "single", !.success = TRUE]]
       ELSE sm' = [sm EXCEPT !.pc = "form", !.inflight = NoFlight,
                             !.result = [NoResult EXCEPT !.kind = "error"]]
    /\ UNCHANGED <<vendors, accounts, vm, now, customers, payments, customerUpdates, pm, cm, quick, view, env, reads>>

\* the awaited sendSMS to a typed phone number returns
SMSManualSendReturn(outcome) ==
    /\ sm.pc = "manual_wait"
    /\ outcome \in Outcomes(env)
    /\ smsLog' = Append(smsLog, SmsCall(<<"sms", sm.op, 0>>, sm.inflight.to, sm.inflight.message,
                                        senderArg(env.vendor), outcome))
    /\ sm' = [sm EXCEPT !.pc = "form", !.inflight = NoFlight,
                        !.result = IF outcome = "sent"
                                   THEN [NoResult EXCEPT !.kind = "manual", !.success = TRUE]
                                   ELSE [NoResult EXCEPT !.kind = "error"]]
    /\ UNCHANGED <<vendors, accounts, vm, now, customers, payments, customerUpdates, pm, cm, quick, view, env, reads>>

\* the update of last_reminder_sent .in('id', selectedCustomers) returns; its
\* error, if any, is not looked at
SMSUpdateReturn(ok) ==
    /\ sm.pc = "update_wait"
    /\ customers' = IF ok
                    THEN [c \in DOMAIN customers |->
                            IF c \in reminderTargets(sm, smsLog)
                            THEN [customers[c] EXCEPT !.last_reminder_sent = sm.stamp]
                            ELSE customers[c]]
                    ELSE customers
    /\ sm' = [sm EXCEPT !.pc = "form"]
    /\ UNCHANGED <<vendors, accounts, vm, now, payments, customerUpdates, smsLog, pm, cm, quick, view, env, reads>>

----------------------------------------------------------------------------
(* Dashboard.handleQuickSMSReminder *)

QuickIdle == [pc |-> "idle", customer |-> "", to |-> <<>>, message |-> EmptyText, stamp |-> NULL]

\* the text of the quick reminder (lines 160-178)
quickMessage(customer, n, vendorData) ==
    LET expiry    == DateOf(customer.expiry_date)
        daysUntil == daysUntilOf(expiry, n)
    IN  IF daysUntil < 0
        THEN templateExpired(customer.name, Abs(daysUntil), expiry, vendorData)
        ELSE IF daysUntil <= 7
        THEN templateExpiring(customer.name, daysUntil, expiry, vendorData)
        ELSE templateExpiring(customer.name, daysUntil, expiry, vendorData)

\* the reminder button of a row of the dashboard's list; the row's name, phone and
\* expiry_date are those of the table (nothing changes them while the list is shown).
\* The SMS modal is an overlay over the list: no row button is clicked while it is open
handleQuickSMSReminder(c) ==
    /\ quick.pc = "idle"
    /\ sm.pc = "closed"
    /\ c \in DOMAIN customers
    /\ OpsStarted < MaxOps
    /\ quick' = [pc |-> "send_wait", customer |-> c, to |-> customers[c].phone,
                 message |-> quickMessage(customers[c], now, vendorDataOf(env.vendor)),
                 stamp |-> NULL]
    /\ UNCHANGED <<vendors, accounts, vm, now, customers, payments, customerUpdates, smsLog, pm, cm, sm, view, env, reads>>

\* what handleQuickSMSReminder does after its awaited sendSMS (lines 181-194): the
\* update of last_reminder_sent is issued, or sendSMS threw and the catch block alerts
afterQuickSend_always(state, outcome, n) == [state EXCEPT !.pc = "update_wait", !.stamp = n]

afterQuickSend(state, outcome, n) ==
    IF outcome = "sent"
    THEN [state EXCEPT !.pc = "update_wait", !.stamp = n]
    ELSE QuickIdle

\* the awaited sendSMS returns: on success the last_reminder_sent update is issued,
\* on failure the catch block alerts
QuickSendReturn(outcome) ==
    /\ quick.pc = "send_wait"
    /\ outcome \in Outcomes(env)
    /\ smsLog' = Append(smsLog, SmsCall(<<"quick", quick.customer, 0>>, quick.to, quick.message,
                                        senderArg(env.vendor), outcome))
    /\ quick' = afterQuickSend(quick, outcome, now)
    /\ UNCHANGED <<vendors, accounts, vm, now, customers, payments, customerUpdates, pm, cm, sm, view, env, reads>>

\* the update of last_reminder_sent returns (its error is not looked at)
QuickUpdateReturn(ok) ==
    /\ quick.pc = "update_wait"
    /\ customers' = IF ok /\ quick.customer \in DOMAIN customers
                    THEN [customers EXCEPT ![quick.customer].last_reminder_sent = quick.stamp]
                    ELSE customers
    /\ quick' = QuickIdle
    /\ UNCHANGED <<vendors, accounts, vm, now, payments, customerUpdates, smsLog, pm, cm, sm, view, env, reads>>

----------------------------------------------------------------------------
(* The clock *)

ClockDays == 1       \* days the clock can advance in one behaviour

StartDay == DayNum(2024, 3, 10)

Tick ==
    /\ now < (StartDay + ClockDays) * DayLen
    /\ now' = now + 1
    /\ UNCHANGED <<vendors, accounts, vm, customers, payments, customerUpdates, smsLog, pm, cm, sm, quick, view, env, reads>>

----------------------------------------------------------------------------
(* Reminders: the SMS modal and the quick reminder over three customers *)

NoView == [expiryDate |-> 0, at |-> 0, status |-> "", days |-> 0]

Envs == {[vendor |-> NoVendor, apiKey |-> TRUE], [vendor |-> VendorA, apiKey |-> TRUE],
         [vendor |-> VendorA, apiKey |-> FALSE]}

ReminderRow(c) ==
    [name |-> NameOf[c], phone |-> PhoneOf[c], is_active |-> TRUE,
     monthly_fee |-> 50, subscription_date |-> StartDay - 40,
     created_by |-> "u1", vendor_id |-> "v1",
     expiry_date |-> CASE c = "c1" -> StartDay - 5
                       [] c = "c2" -> StartDay + 1
                       [] OTHER    -> StartDay + 25,
     last_reminder_sent |-> IF c = "c1" THEN (StartDay - 1) * DayLen ELSE NULL]

InitSMS ==
    /\ now = StartDay * DayLen
    /\ customers = [c \in CustIds |-> ReminderRow(c)]
    /\ payments = <<>>
    /\ customerUpdates = <<>>
    /\ smsLog = <<>>
    /\ pm = <<>>
    /\ cm = <<>>
    /\ sm = SmClosed
    /\ quick = QuickIdle
    /\ view = NoView
    /\ env \in Envs
    /\ reads = {}
    /\ vendors = <<>>
    /\ accounts = {}
    /\ vm = VmClosed

NextSMS ==
    \/ Tick
    \/ \E ok \in BOOLEAN : SMSFetchCustomers(ok)
    \/ SMSClose
    \/ \E c \in CustIds : handleCustomerSelect(c)
    \/ \E t \in MessageTypes : handleMessageTypeChange(t)
    \/ \E text \in CustomTexts \cup {EmptyText} : SMSTypeMessage(text)
    \/ \E phone \in ManualPhones \cup {<<>>} : SMSTypePhone(phone)
    \/ SMSSubmit
    \/ \E o \in {"sent", "rejected", "unconfigured"} : SMSBulkSendReturn(o)
    \/ \E o \in {"sent", "rejected", "unconfigured"} : SMSSingleSendReturn(o)
    \/ \E o \in {"sent", "rejected", "unconfigured"} : SMSManualSendReturn(o)
    \/ \E ok \in BOOLEAN : SMSUpdateReturn(ok)
    \/ \E c \in CustIds : handleQuickSMSReminder(c)
    \/ \E o \in {"sent", "rejected", "unconfigured"} : QuickSendReturn(o)
    \/ \E ok \in BOOLEAN : QuickUpdateReturn(ok)

SpecSMS == InitSMS /\ [][NextSMS]_vars

----------------------------------------------------------------------------
(* Properties of the reminder operations, under SpecSMS *)

\* the calls of sendSMS made by submission op of the SMS modal, in order
CallsOf(op) == SelectSeq(smsLog, LAMBDA e : e.by[1] = "sms" /\ e.by[2] = op)

\* a step of the SMS modal that renders a text for a selected customer and hands it
\* to sendSMS
RendersForCustomer == sm' # sm /\ sm'.pc \in {"bulk_wait", "single_wait"}

\* a step of handleQuickSMSReminder that renders its text
QuickRenders == quick.pc = "idle" /\ quick'.pc = "send_wait"

\* the step in which the bulk operation's update of last_reminder_sent is applied
BulkUpdateStep == sm.pc = "update_wait" /\ sm.result.kind = "bulk" /\ sm'.pc = "form"

\* C1: in a bulk send, a customer whose send failed keeps its previous
\* last_reminder_sent; only the customers whose send succeeded are advanced.
C1_FailedKeepLastReminder ==
    [][BulkUpdateStep =>
         \A i \in 1..Len(sm.details) :
            CallsOf(sm.op)[i].outcome # "sent" =>
               customers'[sm.details[i].id].last_reminder_sent
                  = customers[sm.details[i].id].last_reminder_sent]_vars

\* the outcome of the call of sendSMS a step makes
OutcomeSent == smsLog'[Len(smsLog')].outcome = "sent"

\* the steps in which the awaited send of a single-recipient reminder returns
QuickSendStep == quick.pc = "send_wait" /\ quick'.pc # "send_wait"
SingleSendStep == sm.pc = "single_wait" /\ sm'.pc # "single_wait"
ManualSendStep == sm.pc = "manual_wait" /\ sm'.pc # "manual_wait"

\* the steps in which the update of last_reminder_sent of a single-recipient reminder
\* returns
QuickUpdateStep == quick.pc = "update_wait" /\ quick'.pc = "idle"
SingleUpdateStep == sm.pc = "update_wait" /\ sm.result.kind = "single" /\ sm'.pc = "form"

\* the table with last_reminder_sent of row c set to stamp
Stamped(table, c, stamp) == [table EXCEPT ![c].last_reminder_sent = stamp]

\* a single-recipient reminder issues the update of last_reminder_sent, for its
\* customer only, iff its send succeeded; a failed send and a send to a typed number
\* leave every customer row as it is
SingleReminderIssuesUpdateIffSent ==
    /\ QuickSendStep => /\ customers' = customers
                        /\ quick'.pc = "update_wait" <=> OutcomeSent
                        /\ ~OutcomeSent => quick'.pc = "idle"
    /\ SingleSendStep => /\ customers' = customers
                         /\ sm'.pc = "update_wait" <=> OutcomeSent
                         /\ ~OutcomeSent => sm'.pc = "form"
    /\ ManualSendStep => customers' = customers /\ sm'.pc = "form"
    /\ \A c \in DOMAIN customers :
          customers'[c].last_reminder_sent # customers[c].last_reminder_sent =>
             \/ QuickUpdateStep /\ c = quick.customer
             \/ sm.pc = "update_wait" /\ sm'.pc = "form" /\ c \in Range(sm.selectedCustomers)

\* C21 as stated: a single-recipient reminder (quick reminder, or SMS modal with one
\* selected customer) updates the customer's last_reminder_sent iff its send
\* succeeded: whenever the send succeeded the row carries the new timestamp once the
\* operation is over; a failed send leaves it unchanged, and a send to a typed number
\* updates no row.
C21_UpdatedIffSent ==
    [][/\ SingleReminderIssuesUpdateIffSent
       /\ QuickUpdateStep => customers' = Stamped(customers, quick.customer, quick.stamp)
       /\ SingleUpdateStep => customers' = Stamped(customers, sm.selectedCustomers[1], sm.stamp)]_vars

\* C21, amended: a single-recipient reminder issues the update of last_reminder_sent,
\* for its customer only, iff its send succeeded, and the row carries the new timestamp
\* if the database applied the update; the answer of the update is not looked at, so
\* when the update failed the row keeps its old value although the send succeeded.  A
\* failed send leaves the row unchanged, and a send to a typed number updates no row.
C21_UpdateIssuedIffSent ==
    [][/\ SingleReminderIssuesUpdateIffSent
       /\ QuickUpdateStep => customers' \in {customers, Stamped(customers, quick.customer, quick.stamp)}
       /\ SingleUpdateStep => customers' \in {customers, Stamped(customers, sm.selectedCustomers[1], sm.stamp)}]_vars

C21_Witness ==
    /\ Len(smsLog) = 1 /\ smsLog[1].by[1] = "quick" /\ smsLog[1].by[2] = "c2"
    /\ smsLog[1].outcome = "sent"
    /\ quick.pc = "idle"
    /\ customers["c2"].last_reminder_sent # NULL

\* C8: every manual reminder (quick reminder, SMS modal of type expiring or expired,
\* single or bulk) delivers the Expired text iff the customer's day count is below 0
\* and the Expiring text for every day count from 0 up.
C8_TemplateByDayCount ==
    [][/\ QuickRenders =>
            LET d == daysUntilOf(DateOf(customers[quick'.customer].expiry_date), now)
            IN  quick'.message.kind = IF d < 0 THEN "expired" ELSE "expiring"
       /\ (RendersForCustomer /\ sm'.formData.messageType \in {"expiring", "expired"}) =>
            LET d == daysUntilOf(DateOf(sm'.details[sm'.inflight.idx].expiry_date), now)
            IN  sm'.inflight.message.kind = IF d < 0 THEN "expired" ELSE "expiring"]_vars

\* C9: in a bulk send of a non-custom type every recipient's text is rendered from
\* that recipient's own name, expiry date and day count at the time of the send
\* (the templates without customer data from the template alone), never from
\* another recipient's data and never from the form's message.
C9_BulkPersonalized ==
    [][(RendersForCustomer /\ sm'.pc = "bulk_wait" /\ sm'.formData.messageType # "custom") =>
         LET r    == sm'.details[sm'.inflight.idx]
             m    == sm'.inflight.message
             type == sm'.formData.messageType
             vd   == vendorDataOf(env.vendor)
         IN  /\ sm'.inflight.to = r.phone
             /\ type \in {"welcome", "expiring", "expired"} =>
                   /\ m.name = firstName(r.name)
                   /\ m.date = toOrdinalDate(DateOf(r.expiry_date))
                   /\ m.kind \in {"welcome", "expiring", "expired"}
             /\ type \in {"expiring", "expired"} =>
                   m.count = Abs(daysUntilOf(DateOf(r.expiry_date), now))
             /\ type = "welcome" => m.kind = "welcome"
             /\ type = "maintenance" => m = templateMaintenance(DefaultWindow, vd)
             /\ type = "update" => m = templateNetworkUpdate(vd)]_vars

\* C9 witness: a bulk send of type expiring delivered two texts naming different
\* customers while the form held another message
C9_Witness ==
    /\ sm.result.kind = "bulk"
    /\ sm.formData.messageType = "expiring"
    /\ Len(CallsOf(sm.op)) >= 2
    /\ CallsOf(sm.op)[1].outcome = "sent"
    /\ CallsOf(sm.op)[2].outcome = "sent"
    /\ CallsOf(sm.op)[1].message.name # CallsOf(sm.op)[2].message.name
    /\ CallsOf(sm.op)[1].message.count # CallsOf(sm.op)[2].message.count

\* the error entries a bulk operation must end with: one per failed call, in order
ExpectedErrors(op, details) ==
    LET failedCalls == SelectSeq(CallsOf(op), LAMBDA e : e.outcome # "sent")
    IN  [k \in 1..Len(failedCalls) |->
            [name |-> details[failedCalls[k].by[3]].name,
             reason |-> errorMessageOf(failedCalls[k].outcome)]]

\* C10: a bulk send to n customers calls sendSMS exactly once per customer, also
\* after failures, and ends with successful + failed = n and one error entry
\* "<name>: <reason>" per failed customer.
C10_BulkTally ==
    sm.result.kind = "bulk" =>
        LET n     == Len(sm.details)
            calls == CallsOf(sm.op)
        IN  /\ Len(calls) = n
            /\ \A i \in 1..n : calls[i].by[3] = i /\ calls[i].to = formatPhone(sm.details[i].phone)
            /\ sm.result.successful + sm.result.failed = n
            /\ sm.result.successful = Cardinality({i \in 1..n : calls[i].outcome = "sent"})
            /\ Len(sm.result.errors) = sm.result.failed
            /\ sm.result.errors = ExpectedErrors(sm.op, sm.details)

\* C10 witness: three recipients, the first send rejected, the other two sent
C10_Witness ==
    /\ sm.result.kind = "bulk"
    /\ Len(sm.details) = 3
    /\ CallsOf(sm.op)[1].outcome = "rejected"
    /\ sm.result.successful = 2
    /\ sm.result.failed = 1

\* C11: during a bulk send the recipients are processed one after another: the send
\* in flight is that of recipient k + 1 exactly when the sends of recipients 1..k, and
\* no others, have completed, in that order; no send is started before the one
\* before it has completed.
C11_BulkSequential ==
    sm.pc = "bulk_wait" =>
        LET done == CallsOf(sm.op)
        IN  /\ sm.inflight.idx = Len(done) + 1
            /\ sm.inflight.idx <= Len(sm.details)
            /\ \A k \in 1..Len(done) : done[k].by[3] = k

\* the send to the third of three recipients in flight after the first one failed
C11_Witness ==
    /\ sm.pc = "bulk_wait"
    /\ sm.inflight.idx = 3
    /\ Len(CallsOf(sm.op)) = 2
    /\ CallsOf(sm.op)[1].outcome # "sent"

----------------------------------------------------------------------------
(* The status evaluator on its own: getSubscriptionStatus applied to an expiry *)
(* instant and a current instant                                               *)

Instants == 0..(MaxDay * DayLen)

Blank ==
    /\ customers = <<>>
    /\ payments = <<>>
    /\ customerUpdates = <<>>
    /\ smsLog = <<>>
    /\ pm = <<>>
    /\ cm = <<>>
    /\ sm = SmClosed
    /\ quick = QuickIdle
    /\ env = [vendor |-> NoVendor, apiKey |-> TRUE]
    /\ reads = {}
    /\ vendors = <<>>
    /\ accounts = {}
    /\ vm = VmClosed

InitStatus ==
    /\ Blank
    /\ now \in Instants
    /\ \E e \in Instants : view = [NoView EXCEPT !.expiryDate = e]

\* a row of the dashboard is rendered: the badge of its expiry date now
Evaluate ==
    /\ view.status = ""
    /\ LET r == getSubscriptionStatus(view.expiryDate, now)
       IN  view' = [view EXCEPT !.at = now, !.status = r.status, !.days = r.days]
    /\ UNCHANGED <<vendors, accounts, vm, now, customers, payments, customerUpdates, smsLog, pm, cm, sm, quick, env, reads>>

NextStatus == Evaluate

SpecStatus == InitStatus /\ [][NextStatus]_vars

\* d is ceil((e - n) / 1 day): the least integer with e - n <= d days
IsDaysDelta(d, e, n) == (d - 1) * DayLen < e - n /\ e - n <= d * DayLen

Deltas == (0 - MaxDay - 1)..(MaxDay + 1)

\* C6: with daysDelta = ceil((expiryDate - now) / 1 day) the status is Expired with
\* magnitude abs(daysDelta) iff daysDelta < 0, Expiring Soon with magnitude daysDelta
\* iff 0 <= daysDelta <= 3, Active otherwise; daysDelta = 0 is Expiring Soon.
C6_StatusByDaysDelta ==
    view.status # "" =>
        \E d \in Deltas :
            /\ IsDaysDelta(d, view.expiryDate, view.at)
            /\ view.status = "Expired" <=> d < 0
            /\ view.status = "Expiring Soon" <=> (0 <= d /\ d <= 3)
            /\ view.status = "Active" <=> d > 3
            /\ view.days = Abs(d)

\* C6 witness: an expiry that is exactly now (daysDelta = 0) evaluated as Expiring
\* Soon, magnitude 0
C6_Witness ==
    /\ view.status = "Expiring Soon"
    /\ view.days = 0
    /\ view.expiryDate = view.at

\* C7 as stated: Expired iff E < N, Expiring Soon iff 0 <= ceil((E - N) / day) <= 3.
C7_ExpiredIffBeforeNow ==
    view.status # "" =>
        /\ view.status = "Expired" <=> view.expiryDate < view.at
        /\ view.status = "Expiring Soon" <=>
              \E d \in 0..3 : IsDaysDelta(d, view.expiryDate, view.at)

\* C7 amended: Expired iff a full day or more has passed since E (E + 1 day <= N,
\* that is ceil((E - N) / day) < 0), Expiring Soon iff 0 <= ceil((E - N) / day) <= 3.
C7_ExpiredIffDayElapsed ==
    view.status # "" =>
        /\ view.status = "Expired" <=> view.expiryDate + DayLen <= view.at
        /\ view.status = "Expiring Soon" <=>
              \E d \in 0..3 : IsDaysDelta(d, view.expiryDate, view.at)

\* C7 witness: an expiry less than a day in the past, evaluated as Expiring Soon
C7_Witness ==
    /\ view.status = "Expiring Soon"
    /\ view.expiryDate < view.at
    /\ view.at < view.expiryDate + DayLen

----------------------------------------------------------------------------
(* PaymentModal, one per session, opened from a row of the session's dashboard list *)

MaxSubmissions == 2  \* submissions of the payment form and the customer form in one behaviour

MonthOptions == {1, 2, 3, 6, 12}

NoRow == [id |-> ""]

PmClosed(list) ==
    [pc |-> "closed", list |-> list, customer |-> NoRow,
     formData |-> [amount |-> 0, months_paid |-> 1],
     newExpiry |-> 0, wasExpired |-> FALSE, payment |-> 0,
     error |-> FALSE, saved |-> FALSE, warned |-> FALSE, subs |-> 0]

\* the submissions of the payment forms and the customer form so far
SubmissionsStarted ==
    LET RECURSIVE Sum(_)
        Sum(S) == IF S = {} THEN 0
                  ELSE LET x == CHOOSE x \in S : TRUE IN pm[x].subs + Sum(S \ {x})
    IN  Sum(DOMAIN pm) + cm.subs

\* a session shows one modal at a time (each is an overlay over the dashboard)
NoModalOpen(s) ==
    /\ pm[s].pc \in {"closed", "done"}
    /\ s = "s1" => cm.pc \in {"closed", "done"}

\* the dashboard's query: select('*').order('created_at'), no filter (lines 64-67)
dashboardQuery(user) == selectOf("customers", user, NoVendorId)

\* the list the dashboard holds after its query
dashboardList(table, user) == [c \in rowsOf(table, dashboardQuery(user)) |-> table[c]]

\* Dashboard.fetchCustomers: the list a session shows is loaded again (on an error
\* the list stays as it is)
DashFetchCustomers(s) ==
    /\ pm[s].pc \in {"closed", "done"}
    /\ pm[s].list # dashboardList(customers, UserOf[s]) \/ dashboardQuery(UserOf[s]) \notin reads
    /\ pm' = [pm EXCEPT ![s].list = dashboardList(customers, UserOf[s])]
    /\ reads' = reads \cup {dashboardQuery(UserOf[s])}
    /\ UNCHANGED <<vendors, accounts, vm, now, customers, payments, customerUpdates, smsLog, cm, sm, quick, view, env>>

\* the start of the extension: currentExpiry > now ? currentExpiry : now (line 80)
startDateOf_alwaysExpiry(currentExpiry, n) == currentExpiry

startDateOf(currentExpiry, n) == IF currentExpiry > n THEN currentExpiry ELSE n

\* oldExpiry < now (line 86)
wasExpiredOf(oldExpiry, n) == oldExpiry < n

\* the row handleSubmit inserts (lines 89-99)
paymentDataOf(customer, formData, user) ==
    [customer_id |-> customer.id, amount |-> formData.amount,
     months_paid |-> formData.months_paid, created_by |-> user.id,
     vendor_id |-> vendorIdOrNull(user)]

\* handleSubmit up to the awaited insert of the payment (lines 72-103), on the form in
\* state.formData for the customer state.customer
submitPayment_smsFirst(state, n) ==
    LET currentExpiry == DateOf(state.customer.expiry_date)
        startDate     == IF currentExpiry > n THEN currentExpiry ELSE n
    IN  [state EXCEPT !.pc = "conf_wait",
                      !.error = FALSE,
                      !.subs = @ + 1,
                      !.newExpiry = addMonths(startDate, state.formData.months_paid),
                      !.wasExpired = currentExpiry < n]

submitPayment(state, n) ==
    LET currentExpiry == DateOf(state.customer.expiry_date)
        startDate     == startDateOf(currentExpiry, n)
    IN  [state EXCEPT !.pc = "insert_wait",
                      !.error = FALSE,
                      !.subs = @ + 1,
                      !.newExpiry = addMonths(startDate, state.formData.months_paid),
                      !.wasExpired = wasExpiredOf(currentExpiry, n)]

\* the payment button of row c of the session's list mounts the modal with that row as
\* its customer and the row's monthly fee as the amount; the user picks the months to
\* pay and submits
PaymentSubmit(s, c, m) ==
    /\ NoModalOpen(s)
    /\ SubmissionsStarted < MaxSubmissions
    /\ c \in DOMAIN pm[s].list
    /\ m \in MonthOptions
    /\ pm' = [pm EXCEPT ![s] =
                 submitPayment([PmClosed(pm[s].list) EXCEPT
                                   !.subs = pm[s].subs,
                                   !.customer = [id |-> c] @@ pm[s].list[c],
                                   !.formData = [amount |-> pm[s].list[c].monthly_fee, months_paid |-> m]],
                               now)]
    /\ UNCHANGED <<vendors, accounts, vm, now, customers, payments, customerUpdates, smsLog, cm, sm, quick, view, env, reads>>

\* after an error the modal stays open with its customer and form: the user submits again
PaymentRetry(s) ==
    /\ pm[s].pc = "form"
    /\ SubmissionsStarted < MaxSubmissions
    /\ pm' = [pm EXCEPT ![s] = submitPayment(pm[s], now)]
    /\ UNCHANGED <<vendors, accounts, vm, now, customers, payments, customerUpdates, smsLog, cm, sm, quick, view, env, reads>>

\* what the outer catch does when the insert or the update failed (lines 145-147):
\* setError, and the modal stays open
onPersistError_goesOn(state) == [state EXCEPT !.pc = "conf_wait"]

onPersistError(state) == [state EXCEPT !.pc = "form", !.error = TRUE]

\* the payments table after .insert([paymentData]) (lines 101-103): one more row
insertedPayments_upsert(table, row) ==
    IF \E i \in 1..Len(table) : table[i].customer_id = row.customer_id
    THEN LET i == CHOOSE i \in 1..Len(table) : table[i].customer_id = row.customer_id
         IN  Append([table EXCEPT ![i] = row], row)
    ELSE Append(table, row)

insertedPayments(table, row) == Append(table, row)

\* the database takes a payment row only with a vendor_id (NOT NULL) that is the
\* vendor of the signed-in user, who is the row's created_by
mayInsertPayment(user, row) ==
    /\ row.vendor_id # NoVendorId
    /\ row.vendor_id = user.vendorId
    /\ row.created_by = user.id

\* the insert returns: on an error handleSubmit throws, else it issues the update of
\* the customer; the insert of a payment whose customer row is gone is an error
\* (customer_id REFERENCES customers(id)), and so is one the database does not take
PaymentInsertReturn(s, ok) ==
    /\ pm[s].pc = "insert_wait"
    /\ IF /\ ok
          /\ pm[s].customer.id \in DOMAIN customers
          /\ mayInsertPayment(UserOf[s], paymentDataOf(pm[s].customer, pm[s].formData, UserOf[s]))
       THEN /\ payments' = insertedPayments(payments,
                                            paymentDataOf(pm[s].customer, pm[s].formData, UserOf[s]))
            /\ pm' = [pm EXCEPT ![s].pc = "update_wait", ![s].payment = Len(payments) + 1]
       ELSE /\ payments' = payments
            /\ pm' = [pm EXCEPT ![s] = onPersistError(pm[s])]
    /\ UNCHANGED <<vendors, accounts, vm, now, customers, customerUpdates, smsLog, cm, sm, quick, view, env, reads>>

\* the table after .update({expiry_date, is_active: true, ...}).eq('id', customer.id)
\* (lines 110-117): the row of that id is written whatever it holds now
updatedCustomers_ifFresh(table, state) ==
    IF /\ state.customer.id \in DOMAIN table
       /\ table[state.customer.id].expiry_date = state.customer.expiry_date
    THEN [table EXCEPT ![state.customer.id].expiry_date = toISODate(state.newExpiry),
                       ![state.customer.id].is_active = TRUE]
    ELSE table

updatedCustomers(table, state) ==
    IF state.customer.id \in DOMAIN table
    THEN [table EXCEPT ![state.customer.id].expiry_date = toISODate(state.newExpiry),
                       ![state.customer.id].is_active = TRUE]
    ELSE table

\* the update of the customer returns: on an error handleSubmit throws, else it goes on
\* to the confirmation SMS
PaymentUpdateReturn(s, ok) ==
    /\ pm[s].pc = "update_wait"
    /\ IF ok
       THEN /\ customers' = updatedCustomers(customers, pm[s])
            /\ customerUpdates' =
                 IF pm[s].customer.id \in DOMAIN customers
                 THEN Append(customerUpdates,
                             [id |-> pm[s].customer.id, expiry_date |-> toISODate(pm[s].newExpiry),
                              payment |-> pm[s].payment])
                 ELSE customerUpdates
            /\ pm' = [pm EXCEPT ![s].pc = "conf_wait"]
       ELSE /\ UNCHANGED <<vendors, accounts, vm, customers, customerUpdates>>
            /\ pm' = [pm EXCEPT ![s] = onPersistError(pm[s])]
    /\ UNCHANGED <<vendors, accounts, vm, now, payments, smsLog, cm, sm, quick, view, env, reads>>

\* what the catch around the sends does with a failed send (lines 137-141): it
\* alerts, and handleSubmit goes on to onSave and onClose
onSmsError_failsPayment(state) == [state EXCEPT !.pc = "form", !.error = TRUE]

onSmsError(state) == [state EXCEPT !.pc = "done", !.warned = TRUE, !.saved = TRUE]

\* after a delivered confirmation: the activation send if the service was expired,
\* else onSave and onClose
afterConfirmation(state) ==
    IF state.wasExpired
    THEN [state EXCEPT !.pc = "act_wait"]
    ELSE [state EXCEPT !.pc = "done", !.saved = TRUE]

\* the awaited sendSMS of sendPaymentConfirmationSMS returns
PaymentConfirmationReturn(s, outcome) ==
    /\ pm[s].pc = "conf_wait"
    /\ outcome \in Outcomes(env)
    /\ smsLog' = Append(smsLog,
                        SmsCall(<<"payment", s, pm[s].payment>>, pm[s].customer.phone,
                                templatePaymentConfirmation(pm[s].customer.name,
                                                            pm[s].formData.amount * pm[s].formData.months_paid,
                                                            pm[s].newExpiry, vendorDataOf(env.vendor)),
                                senderArg(env.vendor), outcome))
    /\ LET next == IF outcome = "sent" THEN afterConfirmation(pm[s]) ELSE onSmsError(pm[s])
       IN  /\ pm' = [pm EXCEPT ![s] = IF next.pc = "done"
                                        THEN [next EXCEPT !.list = dashboardList(customers, UserOf[s])]
                                        ELSE next]
           /\ reads' = IF next.pc = "done" THEN reads \cup {dashboardQuery(UserOf[s])} ELSE reads
    /\ UNCHANGED <<vendors, accounts, vm, now, customers, payments, customerUpdates, cm, sm, quick, view, env>>

\* the awaited sendSMS of sendServiceActivationSMS returns
PaymentActivationReturn(s, outcome) ==
    /\ pm[s].pc = "act_wait"
    /\ outcome \in Outcomes(env)
    /\ smsLog' = Append(smsLog,
                        SmsCall(<<"activation", s, pm[s].payment>>, pm[s].customer.phone,
                                templateActivation(pm[s].customer.name, pm[s].newExpiry,
                                                   vendorDataOf(env.vendor)),
                                senderArg(env.vendor), outcome))
    /\ LET next == IF outcome = "sent" THEN [pm[s] EXCEPT !.pc = "done", !.saved = TRUE]
                   ELSE onSmsError(pm[s])
       IN  /\ pm' = [pm EXCEPT ![s] = IF next.pc = "done"
                                        THEN [next EXCEPT !.list = dashboardList(customers, UserOf[s])]
                                        ELSE next]
           /\ reads' = IF next.pc = "done" THEN reads \cup {dashboardQuery(UserOf[s])} ELSE reads
    /\ UNCHANGED <<vendors, accounts, vm, now, customers, payments, customerUpdates, cm, sm, quick, view, env>>

\* the close button of the payment modal: it unmounts
PaymentClose(s) ==
    /\ pm[s].pc = "form"
    /\ pm' = [pm EXCEPT ![s] = [PmClosed(pm[s].list) EXCEPT !.subs = pm[s].subs]]
    /\ UNCHANGED <<vendors, accounts, vm, now, customers, payments, customerUpdates, smsLog, cm, sm, quick, view, env, reads>>

----------------------------------------------------------------------------
(* CustomerModal (session s1): add a customer, or edit a row of the list *)

CmUser == UserOf["s1"]

CmClosed ==
    [pc |-> "closed", customer |-> NoRow, id |-> "",
     formData |-> [name |-> <<>>, phone |-> <<>>, monthly_fee |-> 0, subscription_date |-> 0],
     expiryDate |-> 0, error |-> FALSE, saved |-> FALSE, warned |-> FALSE, subs |-> 0]

\* the row handleSubmit writes (lines 56-70)
customerDataOf_noFirstMonth(formData, user) ==
    [name |-> formData.name, phone |-> formData.phone, monthly_fee |-> formData.monthly_fee,
     subscription_date |-> formData.subscription_date,
     expiry_date |-> formData.subscription_date,
     is_active |-> TRUE, created_by |-> user.id, vendor_id |-> vendorIdOrNull(user)]

customerDataOf_inactive(formData, user) ==
    [name |-> formData.name, phone |-> formData.phone, monthly_fee |-> formData.monthly_fee,
     subscription_date |-> formData.subscription_date,
     expiry_date |-> toISODate(addMonths(DateOf(formData.subscription_date), 1)),
     is_active |-> FALSE, created_by |-> user.id, vendor_id |-> vendorIdOrNull(user)]

customerDataOf(formData, user) ==
    [name |-> formData.name, phone |-> formData.phone, monthly_fee |-> formData.monthly_fee,
     subscription_date |-> formData.subscription_date,
     expiry_date |-> toISODate(addMonths(DateOf(formData.subscription_date), 1)),
     is_active |-> TRUE, created_by |-> user.id, vendor_id |-> vendorIdOrNull(user)]

\* handleSubmit up to its awaited update or insert (lines 51-87)
submitCustomer(state) ==
    [state EXCEPT !.pc = IF state.customer # NoRow THEN "update_wait" ELSE "insert_wait",
                  !.error = FALSE, !.subs = @ + 1,
                  !.expiryDate = addMonths(DateOf(state.formData.subscription_date), 1)]

\* the Add Customer button mounts the modal with an empty form, subscription_date
\* today; the user types a name, a phone number and a fee and submits
CustomerSubmitNew(c) ==
    /\ NoModalOpen("s1")
    /\ SubmissionsStarted < MaxSubmissions
    /\ c \notin DOMAIN customers
    /\ cm' = submitCustomer([CmClosed EXCEPT
                                !.subs = cm.subs,
                                !.formData = [name |-> NameOf[c], phone |-> PhoneOf[c], monthly_fee |-> 50,
                                              subscription_date |-> toISODate(now)]])
    /\ UNCHANGED <<vendors, accounts, vm, now, customers, payments, customerUpdates, smsLog, pm, sm, quick, view, env, reads>>

\* the edit button of row c of the list mounts the modal with the row's fields; the
\* user replaces the phone number, or nothing, and submits
CustomerSubmitEdit(c, phone) ==
    /\ NoModalOpen("s1")
    /\ SubmissionsStarted < MaxSubmissions
    /\ c \in DOMAIN pm["s1"].list
    /\ LET row == pm["s1"].list[c]
       IN  cm' = submitCustomer([CmClosed EXCEPT
                                    !.subs = cm.subs,
                                    !.customer = [id |-> c] @@ row,
                                    !.formData = [name |-> row.name,
                                                  phone |-> IF phone # <<>> THEN phone ELSE row.phone,
                                                  monthly_fee |-> row.monthly_fee,
                                                  subscription_date |-> toISODate(DateOf(row.subscription_date))]])
    /\ UNCHANGED <<vendors, accounts, vm, now, customers, payments, customerUpdates, smsLog, pm, sm, quick, view, env, reads>>

\* after an error the modal stays open with its form: the user submits again
CustomerRetry ==
    /\ cm.pc = "form"
    /\ SubmissionsStarted < MaxSubmissions
    /\ cm' = submitCustomer(cm)
    /\ UNCHANGED <<vendors, accounts, vm, now, customers, payments, customerUpdates, smsLog, pm, sm, quick, view, env, reads>>

\* the update of an edited customer returns; then onSave and onClose
CustomerUpdateReturn(ok) ==
    /\ cm.pc = "update_wait"
    /\ IF ok
       THEN /\ customers' =
                 IF cm.customer.id \in DOMAIN customers
                 THEN [customers EXCEPT ![cm.customer.id] = customerDataOf(cm.formData, CmUser) @@ @]
                 ELSE customers
            /\ cm' = [cm EXCEPT !.pc = "done", !.saved = TRUE]
            /\ pm' = [pm EXCEPT !["s1"].list = dashboardList(customers', CmUser)]
            /\ reads' = reads \cup {dashboardQuery(CmUser)}
       ELSE /\ customers' = customers
            /\ cm' = [cm EXCEPT !.pc = "form", !.error = TRUE]
            /\ pm' = pm
            /\ reads' = reads
    /\ UNCHANGED <<vendors, accounts, vm, now, payments, customerUpdates, smsLog, sm, quick, view, env>>

\* the insert of a new customer returns; on success the welcome SMS is sent
CustomerInsertReturn(ok) ==
    /\ cm.pc = "insert_wait"
    /\ IF ok
       THEN LET id == CHOOSE c \in CustIds : c \notin DOMAIN customers
            IN  /\ customers' = [c \in DOMAIN customers \cup {id} |->
                                    IF c = id
                                    THEN customerDataOf(cm.formData, CmUser) @@ [last_reminder_sent |-> NULL]
                                    ELSE customers[c]]
                /\ cm' = [cm EXCEPT !.pc = "welcome_wait", !.id = id]
       ELSE /\ customers' = customers
            /\ cm' = [cm EXCEPT !.pc = "form", !.error = TRUE]
    /\ UNCHANGED <<vendors, accounts, vm, now, payments, customerUpdates, smsLog, pm, sm, quick, view, env, reads>>

\* what the catch around the welcome send does (lines 96-99): it alerts, and
\* handleSubmit goes on to onSave and onClose
onWelcomeError(state) == [state EXCEPT !.pc = "done", !.warned = TRUE, !.saved = TRUE]

\* the awaited sendSMS of sendWelcomeMessageSMS returns
CustomerWelcomeReturn(outcome) ==
    /\ cm.pc = "welcome_wait"
    /\ outcome \in Outcomes(env)
    /\ smsLog' = Append(smsLog,
                        SmsCall(<<"welcome", cm.id, 0>>, cm.formData.phone,
                                templateWelcome(cm.formData.name, cm.expiryDate, vendorDataOf(env.vendor)),
                                senderArg(env.vendor), outcome))
    /\ cm' = IF outcome = "sent" THEN [cm EXCEPT !.pc = "done", !.saved = TRUE] ELSE onWelcomeError(cm)
    /\ pm' = IF cm'.pc = "done" THEN [pm EXCEPT !["s1"].list = dashboardList(customers, CmUser)] ELSE pm
    /\ reads' = IF cm'.pc = "done" THEN reads \cup {dashboardQuery(CmUser)} ELSE reads
    /\ UNCHANGED <<vendors, accounts, vm, now, customers, payments, customerUpdates, sm, quick, view, env>>

\* the close button of the customer modal: it unmounts
CustomerClose ==
    /\ cm.pc = "form"
    /\ cm' = [CmClosed EXCEPT !.subs = cm.subs]
    /\ UNCHANGED <<vendors, accounts, vm, now, customers, payments, customerUpdates, smsLog, pm, sm, quick, view, env, reads>>

----------------------------------------------------------------------------
(* Payments and customers: two sessions over one customers table *)

PayEnvs == {[vendor |-> VendorA, apiKey |-> TRUE], [vendor |-> NoVendor, apiKey |-> FALSE]}

PayRow(c, expiry) ==
    [name |-> NameOf[c], phone |-> PhoneOf[c], is_active |-> TRUE,
     monthly_fee |-> 50, subscription_date |-> StartDay - 40,
     created_by |-> "u1", vendor_id |-> "v1",
     expiry_date |-> expiry, last_reminder_sent |-> NULL]

\* the expiry dates the customer starts with: long expired, running until tomorrow,
\* and running until the end of a month
StartExpiries == {StartDay - 10, StartDay + 1, DayNum(2024, 3, 31)}

\* the options of the months select that are tried
MonthsTried == {1, 3, 12}

InitPay ==
    /\ now = StartDay * DayLen
    /\ \E e1 \in StartExpiries : customers = [c \in {"c1"} |-> PayRow(c, e1)]
    /\ payments = <<>>
    /\ customerUpdates = <<>>
    /\ smsLog = <<>>
    /\ pm = [s \in Sessions |-> PmClosed(dashboardList(customers, UserOf[s]))]
    /\ cm = CmClosed
    /\ sm = SmClosed
    /\ quick = QuickIdle
    /\ view = NoView
    /\ env \in PayEnvs
    /\ reads = {dashboardQuery(UserOf[s]) : s \in Sessions}
    /\ vendors = <<>>
    /\ accounts = {}
    /\ vm = VmClosed

NextPay ==
    \/ Tick
    \/ \E s \in Sessions : DashFetchCustomers(s)
    \/ \E s \in Sessions, c \in CustIds, m \in MonthsTried : PaymentSubmit(s, c, m)
    \/ \E s \in Sessions : PaymentRetry(s)
    \/ \E s \in Sessions, ok \in BOOLEAN : PaymentInsertReturn(s, ok)
    \/ \E s \in Sessions, ok \in BOOLEAN : PaymentUpdateReturn(s, ok)
    \/ \E s \in Sessions, o \in {"sent", "rejected", "unconfigured"} : PaymentConfirmationReturn(s, o)
    \/ \E s \in Sessions, o \in {"sent", "rejected", "unconfigured"} : PaymentActivationReturn(s, o)
    \/ \E s \in Sessions : PaymentClose(s)
    \/ CustomerSubmitNew("c2")
    \/ \E c \in CustIds, phone \in ManualPhones \cup {<<>>} : CustomerSubmitEdit(c, phone)
    \/ CustomerRetry
    \/ \E ok \in BOOLEAN : CustomerUpdateReturn(ok)
    \/ \E ok \in BOOLEAN : CustomerInsertReturn(ok)
    \/ \E o \in {"sent", "rejected", "unconfigured"} : CustomerWelcomeReturn(o)
    \/ CustomerClose

Spec == InitPay /\ [][NextPay]_vars

\* ---------------------------------------------------------------------------------
\* Properties of the payment and customer modals (Spec)

\* the extensions applied for payment row i
ExtensionsOf(i) == {j \in 1..Len(customerUpdates) : customerUpdates[j].payment = i}

\* payment row i is between its insert and its customer update
UpdatePending(i) == \E s \in Sessions : pm[s].pc = "update_wait" /\ pm[s].payment = i

\* C2: every payment row whose submission is past its customer update corresponds to
\* exactly one applied extension of its customer's expiry_date: none is left without
\* its extension and none is applied twice.
C2_OnePaymentOneExtension ==
    \A i \in 1..Len(payments) :
        ~UpdatePending(i) =>
            /\ Cardinality(ExtensionsOf(i)) = 1
            /\ \A j \in ExtensionsOf(i) : customerUpdates[j].id = payments[i].customer_id

\* a step in which session s starts handleSubmit of the payment form
StartsPayment(s) == pm[s].pc # "insert_wait" /\ pm'[s].pc = "insert_wait"

\* C3: the new expiry handleSubmit computes is max(currentExpiry, now) + monthsPaid
\* calendar months: currentExpiry + monthsPaid months when now <= currentExpiry, and
\* now + monthsPaid months when currentExpiry < now.
C3_NewExpiryFromMax ==
    [][\A s \in Sessions :
          StartsPayment(s) =>
              LET E == DateOf(pm'[s].customer.expiry_date)
                  m == pm'[s].formData.months_paid
              IN  /\ m > 0
                  /\ now <= E => pm'[s].newExpiry = addMonths(E, m)
                  /\ E < now => pm'[s].newExpiry = addMonths(now, m)
                  /\ pm'[s].newExpiry > E /\ pm'[s].newExpiry > now]_vars

\* one month paid for a customer whose expiry is 10 days past: the new expiry is one
\* month from the day of the payment, 10 April
C3_Witness ==
    \E s \in Sessions :
        /\ pm[s].pc = "insert_wait"
        /\ pm[s].customer.expiry_date = StartDay - 10
        /\ pm[s].formData.months_paid = 1
        /\ now = StartDay * DayLen
        /\ toISODate(pm[s].newExpiry) = DayNum(2024, 4, 10)

\* the sends of kind op attempted for payment row i of session s
AttemptsFor(op, s, i) == {k \in 1..Len(smsLog) : smsLog[k].by = <<op, s, i>>}

\* C4: for every recorded payment whose submission is complete, a confirmation send
\* was attempted, and an activation send was attempted if and only if wasExpired.
C4_ActivationIffWasExpired ==
    \A s \in Sessions :
        pm[s].pc = "done" =>
            /\ AttemptsFor("payment", s, pm[s].payment) # {}
            /\ AttemptsFor("activation", s, pm[s].payment) # {} <=> pm[s].wasExpired

\* a step in which a send of session s's payment fails
PaymentSendFails(s) ==
    /\ pm[s].pc \in {"conf_wait", "act_wait"}
    /\ Len(smsLog') = Len(smsLog) + 1
    /\ smsLog'[Len(smsLog')].by[2] = s
    /\ smsLog'[Len(smsLog')].outcome # "sent"

\* a step in which the welcome send of a created customer fails
WelcomeSendFails ==
    /\ cm.pc = "welcome_wait"
    /\ Len(smsLog') = Len(smsLog) + 1
    /\ smsLog'[Len(smsLog')].by[1] = "welcome"
    /\ smsLog'[Len(smsLog')].outcome # "sent"

\* C5: a failed send after a payment was inserted and the customer updated, or after
\* a customer was created, leaves the payments and the customers as they are; the
\* submission completes as saved, with a warning and no error.
C5_SendFailureKeepsMutation ==
    [][/\ \A s \in Sessions :
              PaymentSendFails(s) =>
                  /\ payments' = payments /\ customers' = customers
                  /\ customerUpdates' = customerUpdates
                  /\ pm[s].payment \in 1..Len(payments')
                  /\ ExtensionsOf(pm[s].payment) # {}
                  /\ pm'[s].pc = "done" /\ pm'[s].saved /\ pm'[s].warned /\ ~pm'[s].error
       /\ WelcomeSendFails =>
              /\ payments' = payments /\ customers' = customers
              /\ cm.id \in DOMAIN customers'
              /\ cm'.pc = "done" /\ cm'.saved /\ cm'.warned /\ ~cm'.error]_vars

\* a payment completed with a warning: its row and its extension are in place
C5_Witness ==
    \E s \in Sessions :
        /\ pm[s].pc = "done" /\ pm[s].warned /\ pm[s].saved
        /\ pm[s].payment \in 1..Len(payments)
        /\ customers[pm[s].customer.id].expiry_date = toISODate(pm[s].newExpiry)
        /\ \E k \in AttemptsFor("payment", s, pm[s].payment) : smsLog[k].outcome # "sent"

----------------------------------------------------------------------------
(* The SMS service on its own: sendSMS called with phone numbers and sender ids *)
(* drawn from bounded sets of strings                                           *)

MaxPhoneLen == 4     \* the phone numbers tried: every string of up to MaxPhoneLen characters
MaxSenderLen == 3    \* the sender ids tried: every string of up to MaxSenderLen characters, and longer ones

\* the strings of at most n characters over chars
RECURSIVE StringsOver(_, _)
StringsOver(chars, n) ==
    IF n = 0 THEN {<<>>}
    ELSE LET shorter == StringsOver(chars, n - 1)
         IN  shorter \cup {Append(x, ch) : x \in shorter, ch \in chars}

LocalNumber == <<"0", "2", "4", "1", "2", "3", "4", "5", "6", "7">>

PlusNumber == <<"+", "2", "3", "3", "2", "4", "1", "2", "3", "4", "5", "6", "7">>

PhoneInputs == StringsOver({"0", "2", "3", "+", " ", "5"}, MaxPhoneLen) \cup {LocalNumber, PlusNumber}

LongTail == <<"N", "e", "t", "w", "o", "r", "k", "s", "9", "G", "h">>

ShortSenders == StringsOver({"A", "b", "7", " ", "&"}, MaxSenderLen)

SenderInputs == ShortSenders \cup {x \o LongTail : x \in ShortSenders}

InitGateway ==
    /\ Blank
    /\ now = StartDay * DayLen
    /\ view = NoView

\* sendSMS(to, message) with no sender id
SendTo(to) ==
    /\ smsLog = <<>>
    /\ \E o \in Outcomes(env) :
          smsLog' = <<SmsCall(<<"to", to>>, to, EmptyText, <<>>, o)>>
    /\ UNCHANGED <<vendors, accounts, vm, now, customers, payments, customerUpdates, pm, cm, sm, quick, view, env, reads>>

\* sendSMS called again with the number a first call handed to the gateway
SendToFormatted ==
    /\ Len(smsLog) = 1
    /\ smsLog[1].by[1] = "to"
    /\ \E o \in Outcomes(env) :
          smsLog' = Append(smsLog, SmsCall(<<"again", smsLog[1].to>>, smsLog[1].to, EmptyText, <<>>, o))
    /\ UNCHANGED <<vendors, accounts, vm, now, customers, payments, customerUpdates, pm, cm, sm, quick, view, env, reads>>

\* sendSMS(to, message, senderId); sendBulkSMS derives its sender id by the same
\* expression (lines 112-114)
SendAs(senderId) ==
    /\ smsLog = <<>>
    /\ \E o \in Outcomes(env) :
          smsLog' = <<SmsCall(<<"as", senderId>>, LocalNumber, EmptyText, senderId, o)>>
    /\ UNCHANGED <<vendors, accounts, vm, now, customers, payments, customerUpdates, pm, cm, sm, quick, view, env, reads>>

NextGateway ==
    \/ \E to \in PhoneInputs : SendTo(to)
    \/ SendToFormatted
    \/ \E senderId \in SenderInputs : SendAs(senderId)

SpecGateway == InitGateway /\ [][NextGateway]_vars

\* C12: phone normalization is idempotent: a number sendSMS has normalized, passed
\* to sendSMS again, is handed to the gateway unchanged.
C12_FormatPhoneIdempotent ==
    \A i \in 1..Len(smsLog) :
        smsLog[i].by[1] = "again" => smsLog[i].to = smsLog[i].by[2]

\* the local number 0241234567, normalized (the leading 0 replaced) and sent again
C12_Witness ==
    /\ Len(smsLog) = 2
    /\ smsLog[1].by[2] = LocalNumber
    /\ smsLog[1].to # LocalNumber
    /\ smsLog[2].to = smsLog[1].to

\* x with its whitespace and then one leading '+' removed
Cleaned(x) ==
    LET a == SelectSeq(x, LAMBDA ch : ch # " ")
    IN  IF Len(a) > 0 /\ a[1] = "+" THEN SubSeq(a, 2, Len(a)) ELSE a

\* C13: phone normalization removes all whitespace and one leading '+', then
\* replaces a leading '0' with '233', otherwise prepends '233' unless the string
\* starts with '233'; 0241234567 and +233241234567 both become 233241234567; every
\* result starts with '233' and has no whitespace and no leading '+'.
C13_FormatPhoneRules ==
    \A i \in 1..Len(smsLog) :
        smsLog[i].by[1] = "to" =>
            LET b == Cleaned(smsLog[i].by[2])
                r == smsLog[i].to
            IN  /\ r = IF Len(b) > 0 /\ b[1] = "0" THEN <<"2", "3", "3">> \o SubSeq(b, 2, Len(b))
                       ELSE IF Len(b) >= 3 /\ SubSeq(b, 1, 3) = <<"2", "3", "3">> THEN b
                       ELSE <<"2", "3", "3">> \o b
                /\ Len(r) >= 3 /\ SubSeq(r, 1, 3) = <<"2", "3", "3">>
                /\ \A k \in 1..Len(r) : r[k] # " "
                /\ smsLog[i].by[2] \in {LocalNumber, PlusNumber}
                      => r = <<"2", "3", "3", "2", "4", "1", "2", "3", "4", "5", "6", "7">>

\* +233241234567 handed to the gateway as 233241234567
C13_Witness ==
    /\ Len(smsLog) = 1
    /\ smsLog[1].by = <<"to", PlusNumber>>
    /\ smsLog[1].to = <<"2", "3", "3", "2", "4", "1", "2", "3", "4", "5", "6", "7">>

isAlphanumeric(ch) ==
    \/ charCode("0") <= charCode(ch) /\ charCode(ch) <= charCode("9")
    \/ charCode("A") <= charCode(ch) /\ charCode(ch) <= charCode("Z")
    \/ charCode("a") <= charCode(ch) /\ charCode(ch) <= charCode("z")

\* C20: every sender id handed to the gateway consists only of alphanumeric
\* characters, has no whitespace and is at most 11 characters long, for every
\* vendor name passed as senderId and for the configured default.
C20_SenderIdAlphanumeric ==
    \A i \in 1..Len(smsLog) :
        /\ Len(smsLog[i].sender) <= 11
        /\ \A k \in 1..Len(smsLog[i].sender) :
              smsLog[i].sender[k] # " " /\ isAlphanumeric(smsLog[i].sender[k])

----------------------------------------------------------------------------
(* The reads of the dashboard and the SMS modal over customers and payments of  *)
(* two vendors                                                                   *)

VendorIds == {"v1", "v2"}

\* the payments in the table: one of each vendor
PaymentRows ==
    <<[customer_id |-> "c1", amount |-> 50, months_paid |-> 1, created_by |-> "u1", vendor_id |-> "v1"],
      [customer_id |-> "c3", amount |-> 70, months_paid |-> 1, created_by |-> "u9", vendor_id |-> "v2"]>>

InitQueries ==
    /\ now = StartDay * DayLen
    /\ \E owner \in [CustIds -> VendorIds], active \in [CustIds -> BOOLEAN] :
          customers = [c \in CustIds |->
                          [ReminderRow(c) EXCEPT !.vendor_id = owner[c], !.is_active = active[c]]]
    /\ payments = PaymentRows
    /\ customerUpdates = <<>>
    /\ smsLog = <<>>
    /\ pm = [s \in AllSessions |-> PmClosed(<<>>)]
    /\ cm = CmClosed
    /\ sm = SmClosed
    /\ quick = QuickIdle
    /\ view = NoView
    /\ env \in {[vendor |-> VendorA, apiKey |-> TRUE], [vendor |-> NoVendor, apiKey |-> TRUE]}
    /\ reads = {}
    /\ vendors = <<>>
    /\ accounts = {}
    /\ vm = VmClosed

RECURSIVE sumAmounts(_, _)
sumAmounts(table, rows) ==
    IF rows = {} THEN 0
    ELSE LET i == CHOOSE i \in rows : TRUE IN table[i].amount + sumAmounts(table, rows \ {i})

\* the revenue query: select('amount, payment_date') with the date range only
\* (lines 107-111)
revenueQuery(user) == selectOf("payments", user, NoVendorId)

\* Dashboard.fetchRevenueForRange: the payments of the date range are read and their
\* amounts summed into stats.monthlyRevenue; on an error nothing is set
fetchRevenueForRange(s, ok) ==
    /\ pm[s].pc \in {"closed", "done"}
    /\ reads' = reads \cup {revenueQuery(UserOf[s])}
    /\ IF ok
       THEN LET rows == rowsOf(payments, revenueQuery(UserOf[s]))
            IN  view' = [kind |-> "revenue", by |-> s, rows |-> rows,
                         monthlyRevenue |-> sumAmounts(payments, rows)]
       ELSE view' = view
    /\ view' # view \/ reads' # reads
    /\ UNCHANGED <<vendors, accounts, vm, now, customers, payments, customerUpdates, smsLog, pm, cm, sm, quick, env>>

NextQueries ==
    \/ \E s \in AllSessions : DashFetchCustomers(s)
    \/ \E s \in AllSessions, ok \in BOOLEAN : fetchRevenueForRange(s, ok)
    \/ \E ok \in BOOLEAN : SMSFetchCustomers(ok)
    \/ SMSClose

SpecQueries == InitQueries /\ [][NextQueries]_vars

\* the select q carries the vendor filter of the user it is sent for
CarriesVendorFilter(q) == q.vendor_id # NoVendorId /\ q.vendor_id = q.by.vendorId

\* C14: every select on customers or payments sent for a user who is not a super
\* admin carries the filter vendor_id = that user's vendor id; only a super admin's
\* selects are unfiltered.
C14_ReadsFilteredByVendor ==
    \A q \in reads : q.by.role # "super_admin" => CarriesVendorFilter(q)

----------------------------
(* More properties of the payment and customer modals (Spec) *)

\* the welcome sends attempted for customer c in log
WelcomesFor(log, c) == {k \in 1..Len(log) : log[k].by[1] = "welcome" /\ log[k].by[2] = c}

\* the number of welcome sends attempted in log
WelcomeCount(log) == Cardinality({k \in 1..Len(log) : log[k].by[1] = "welcome"})

\* C15: a customer created through the customer modal is persisted with expiry_date =
\* subscription_date + 1 calendar month and is_active = true; the welcome message is
\* sent once for it, after the insert succeeded, and never for an edit or a failed
\* insert.
C15_CreatedThenWelcomedOnce ==
    [][/\ \A c \in DOMAIN customers' \ DOMAIN customers :
              /\ customers'[c].is_active
              /\ customers'[c].expiry_date =
                    toISODate(addMonths(DateOf(customers'[c].subscription_date), 1))
              /\ customers'[c].expiry_date > customers'[c].subscription_date
              /\ WelcomesFor(smsLog', c) = {}
              /\ cm'.pc = "welcome_wait" /\ cm'.id = c
       /\ WelcomeCount(smsLog') # WelcomeCount(smsLog) =>
              /\ cm.pc = "welcome_wait" /\ cm.customer = NoRow
              /\ cm.id \in DOMAIN customers
              /\ WelcomesFor(smsLog, cm.id) = {}
              /\ Cardinality(WelcomesFor(smsLog', cm.id)) = 1
              /\ WelcomeCount(smsLog') = WelcomeCount(smsLog) + 1
       /\ cm.pc \in {"update_wait", "insert_wait"} => WelcomeCount(smsLog') = WelcomeCount(smsLog)
       /\ cm.pc = "welcome_wait" /\ cm'.pc # "welcome_wait" =>
              Cardinality(WelcomesFor(smsLog', cm.id)) = 1]_vars

\* a customer created on 10 March, running until 10 April, welcomed once after a
\* first insert that failed
C15_Witness ==
    /\ cm.pc = "done" /\ cm.subs = 2
    /\ cm.id \in DOMAIN customers
    /\ customers[cm.id].subscription_date = StartDay
    /\ customers[cm.id].expiry_date = DayNum(2024, 4, 10)
    /\ Cardinality(WelcomesFor(smsLog, cm.id)) = 1
    /\ WelcomeCount(smsLog) = 1

\* C16: no operation of the client writes is_active = false: every customer a step
\* creates or changes has is_active = true afterwards, however far its expiry_date
\* lies in the past; every applied payment leaves its customer with is_active = true;
\* the passing of time changes no customer.
C16_NeverDeactivated ==
    [][/\ \A c \in DOMAIN customers' :
              (c \notin DOMAIN customers \/ customers'[c] # customers[c]) => customers'[c].is_active
       /\ \A c \in DOMAIN customers : customers[c].is_active => customers'[c].is_active
       /\ Len(customerUpdates') > Len(customerUpdates) =>
              customers'[customerUpdates'[Len(customerUpdates')].id].is_active
       /\ now' # now => customers' = customers]_vars

\* an edited customer whose expiry_date the edit left in the past, still active
C16_Witness ==
    /\ cm.pc = "done" /\ cm.customer # NoRow
    /\ DateOf(customers[cm.customer.id].expiry_date) < now
    /\ customers[cm.customer.id].is_active

\* a step in which the customer update of session s's payment is applied
UpdateApplied(s) == pm[s].pc = "update_wait" /\ pm'[s].pc = "conf_wait"

\* C17: payments recorded by two sessions from the same loaded snapshot of a customer
\* are both inserted; no customer update is rejected for staleness: an applied update
\* writes the expiry computed from its session's snapshot, whatever the row holds by
\* then, so the last update applied determines the final expiry_date.
C17_LastWriteWins ==
    [][\A s \in Sessions :
          /\ UpdateApplied(s) =>
                LET id == pm[s].customer.id
                    E  == DateOf(pm[s].customer.expiry_date)
                IN  /\ customers'[id].expiry_date = toISODate(pm[s].newExpiry)
                    /\ \E n \in (StartDay * DayLen)..now :
                          pm[s].newExpiry = addMonths(IF E > n THEN E ELSE n, pm[s].formData.months_paid)
                    /\ pm[s].payment \in 1..Len(payments)
                    /\ payments' = payments
          /\ (pm[s].pc = "insert_wait" /\ pm'[s].pc = "update_wait") =>
                /\ Len(payments') = Len(payments) + 1
                /\ SubSeq(payments', 1, Len(payments)) = payments
                /\ payments'[Len(payments')].customer_id = pm[s].customer.id]_vars

\* both sessions paid for the customer from the snapshot that ran until 31 March, one
\* month and three months: both payments are there, both updates were applied, and
\* the expiry_date is that of the later update, not four months on from the snapshot
C17_Witness ==
    /\ \A s \in Sessions :
          /\ pm[s].pc = "done"
          /\ pm[s].customer.id = "c1"
          /\ pm[s].customer.expiry_date = DayNum(2024, 3, 31)
    /\ pm["s1"].formData.months_paid = 1
    /\ pm["s2"].formData.months_paid = 3
    /\ Len(payments) = 2
    /\ Len(customerUpdates) = 2
    /\ customerUpdates[1].payment # customerUpdates[2].payment
    /\ customers["c1"].expiry_date = customerUpdates[2].expiry_date
    /\ customers["c1"].expiry_date \in {DayNum(2024, 4, 30), DayNum(2024, 6, 30)}

\* the sends attempted in log for payment row i
SendsForPayment(log, i) ==
    {k \in 1..Len(log) : log[k].by[1] \in {"payment", "activation"} /\ log[k].by[3] = i}

\* C18: if the customer update fails after the payment insert succeeded, the payment
\* row stays, the customer is left as it was, the submit ends in the error state and
\* no SMS is sent for it; if the payment insert fails, neither the customers nor the
\* payments are changed.
C18_FailedPersistLeavesRest ==
    [][\A s \in Sessions :
          /\ (pm[s].pc = "update_wait" /\ pm'[s].pc \notin {"update_wait", "conf_wait"}) =>
                /\ pm[s].payment \in 1..Len(payments) /\ payments' = payments
                /\ payments[pm[s].payment].customer_id = pm[s].customer.id
                /\ customers' = customers /\ customerUpdates' = customerUpdates
                /\ pm'[s].pc = "form" /\ pm'[s].error /\ ~pm'[s].saved
                /\ smsLog' = smsLog
                /\ SendsForPayment(smsLog', pm[s].payment) = {}
          /\ (pm[s].pc = "insert_wait" /\ pm'[s].pc \notin {"insert_wait", "update_wait"}) =>
                /\ payments' = payments /\ customers' = customers
                /\ customerUpdates' = customerUpdates /\ smsLog' = smsLog
                /\ pm'[s].pc = "form" /\ pm'[s].error /\ ~pm'[s].saved
          /\ \A i \in 1..Len(payments') :
                (\A j \in 1..Len(customerUpdates') : customerUpdates'[j].payment # i)
                    => SendsForPayment(smsLog', i) = {}]_vars

\* a payment whose customer update failed: the row is there with no extension, the
\* form shows the error, the customer is as the snapshot had it, nothing was sent
C18_Witness ==
    \E s \in Sessions :
        /\ pm[s].pc = "form" /\ pm[s].error
        /\ pm[s].payment \in 1..Len(payments)
        /\ ExtensionsOf(pm[s].payment) = {}
        /\ customers[pm[s].customer.id].expiry_date = pm[s].customer.expiry_date
        /\ smsLog = <<>>

\* the steps of handleSubmit of the payment form, in the order of its awaits
PaymentSteps ==
    {<<"insert_wait", "update_wait">>, <<"insert_wait", "form">>,
     <<"update_wait", "conf_wait">>, <<"update_wait", "form">>,
     <<"conf_wait", "act_wait">>, <<"conf_wait", "done">>,
     <<"act_wait", "done">>}

\* the sends of the payment modal in log are for payments whose insert and customer
\* update succeeded, announce the expiry that update persisted, and an activation
\* send comes after the delivered confirmation of the same payment
SendsFollowPersist(log, table, updates) ==
    \A k \in 1..Len(log) :
        log[k].by[1] \in {"payment", "activation"} =>
            LET i == log[k].by[3]
                applied == {j \in 1..Len(updates) : updates[j].payment = i}
            IN  /\ i \in 1..Len(table)
                /\ applied # {}
                /\ \A j \in applied :
                      /\ updates[j].id = table[i].customer_id
                      /\ log[k].message.date = toOrdinalDate(DateOf(updates[j].expiry_date))
                /\ log[k].by[1] = "activation" =>
                      \E h \in 1..(k - 1) : /\ log[h].by = <<"payment", log[k].by[2], i>>
                                             /\ log[h].outcome = "sent"

C26_RowAmountIsConfirmedTotal ==
    \A k \in 1..Len(smsLog) :
        (smsLog[k].by[1] = "payment" /\ smsLog[k].by[3] \in 1..Len(payments)) =>
            LET row == payments[smsLog[k].by[3]]
            IN  /\ row.months_paid \in MonthOptions
                /\ row.amount = smsLog[k].message.amount

\* the step in which the update of an edited customer is applied
EditApplied == cm.pc = "update_wait" /\ cm'.pc = "done" /\ cm.customer.id \in DOMAIN customers

\* C23: an edit of an existing customer through the customer modal leaves the row's
\* expiry_date, is_active, vendor_id and created_by as they are; the expiry_date of a
\* customer that exists changes only in the update of a payment submission, so an
\* extension bought by a payment is not lost by a later edit.
C23_EditKeepsLifecycle ==
    [][/\ EditApplied =>
            LET old == customers[cm.customer.id]
                new == customers'[cm.customer.id]
            IN  /\ new.expiry_date = old.expiry_date
                /\ new.is_active = old.is_active
                /\ new.vendor_id = old.vendor_id
                /\ new.created_by = old.created_by
       /\ \A c \in DOMAIN customers :
             customers'[c].expiry_date # customers[c].expiry_date =>
                \E s \in Sessions : UpdateApplied(s) /\ pm[s].customer.id = c]_vars

----------------------------------------------------------------------------
(* The payments ledger: payments, customer edits, reminders, deletes of customers *)
(* and edits and deletes of the vendor (SpecLedger)                              *)

\* the payments left when the row c of customers is deleted
\* (customer_id REFERENCES customers(id) ON DELETE CASCADE)
cascadeDelete(table, c) == SelectSeq(table, LAMBDA r : r.customer_id # c)

\* Dashboard.handleDeleteCustomer, the delete button an admin or a super admin is
\* shown for a row of the list, confirmed: the customer is deleted, then the list is
\* loaded again (on an error an alert is shown and nothing changes)
handleDeleteCustomer(s, c) ==
    /\ NoModalOpen(s)
    /\ UserOf[s].role \in {"admin", "super_admin"}
    /\ c \in DOMAIN pm[s].list
    /\ customers' = [d \in DOMAIN customers \ {c} |-> customers[d]]
    /\ payments' = cascadeDelete(payments, c)
    /\ pm' = [pm EXCEPT ![s].list = dashboardList(customers', UserOf[s])]
    /\ reads' = reads \cup {dashboardQuery(UserOf[s])}
    /\ UNCHANGED <<vendors, accounts, vm, now, customerUpdates, smsLog, cm, sm, quick, view, env>>

\* the id of the vendor whose row useVendor holds
VendorAId == "v1"

NewVendorNames == {<<"A", "m", "a", "N", "e", "t">>}

\* handleEdit of the vendors list: the name of the vendor is updated, and the
\* sessions of the vendor load it again
VendorEdit(newName) ==
    /\ env.vendor # NoVendor
    /\ newName # env.vendor.name
    /\ env' = [env EXCEPT !.vendor.name = newName]
    /\ UNCHANGED <<vendors, accounts, vm, now, customers, payments, customerUpdates, smsLog, pm, cm, sm, quick, view, reads>>

\* handleDelete of the vendors list: the delete of a vendor that customers or payments
\* still refer to is an error (vendor_id REFERENCES vendors(id)), and nothing changes
VendorDelete ==
    /\ env.vendor # NoVendor
    /\ \A c \in DOMAIN customers : customers[c].vendor_id # VendorAId
    /\ \A i \in 1..Len(payments) : payments[i].vendor_id # VendorAId
    /\ env' = [env EXCEPT !.vendor = NoVendor]
    /\ UNCHANGED <<vendors, accounts, vm, now, customers, payments, customerUpdates, smsLog, pm, cm, sm, quick, view, reads>>

\* the payments recorded before: one of each customer
LedgerRows ==
    <<[customer_id |-> "c1", amount |-> 50, months_paid |-> 1, created_by |-> "u1", vendor_id |-> "v1"],
      [customer_id |-> "c3", amount |-> 50, months_paid |-> 2, created_by |-> "u2", vendor_id |-> "v1"]>>

InitLedger ==
    /\ now = StartDay * DayLen
    /\ customers = [c \in {"c1", "c3"} |-> PayRow(c, IF c = "c1" THEN StartDay - 10 ELSE StartDay + 1)]
    /\ payments = LedgerRows
    /\ customerUpdates = <<>>
    /\ smsLog = <<>>
    /\ pm = [s \in Sessions |-> PmClosed(dashboardList(customers, UserOf[s]))]
    /\ cm = CmClosed
    /\ sm = SmClosed
    /\ quick = QuickIdle
    /\ view = NoView
    /\ env = [vendor |-> VendorA, apiKey |-> TRUE]
    /\ reads = {dashboardQuery(UserOf[s]) : s \in Sessions}
    /\ vendors = <<>>
    /\ accounts = {}
    /\ vm = VmClosed

NextLedger ==
    \/ \E s \in Sessions : DashFetchCustomers(s)
    \/ PaymentSubmit("s2", "c1", 1)
    \/ \E s \in Sessions : PaymentRetry(s)
    \/ \E s \in Sessions, ok \in BOOLEAN : PaymentInsertReturn(s, ok)
    \/ \E s \in Sessions, ok \in BOOLEAN : PaymentUpdateReturn(s, ok)
    \/ \E s \in Sessions, o \in {"sent", "rejected"} : PaymentConfirmationReturn(s, o)
    \/ \E s \in Sessions, o \in {"sent", "rejected"} : PaymentActivationReturn(s, o)
    \/ \E s \in Sessions : PaymentClose(s)
    \/ CustomerSubmitEdit("c3", <<>>)
    \/ CustomerRetry
    \/ \E ok \in BOOLEAN : CustomerUpdateReturn(ok)
    \/ CustomerClose
    \/ handleQuickSMSReminder("c3")
    \/ \E o \in {"sent", "rejected"} : QuickSendReturn(o)
    \/ \E ok \in BOOLEAN : QuickUpdateReturn(ok)
    \/ \E c \in CustIds : handleDeleteCustomer("s1", c)
    \/ \E n \in NewVendorNames : VendorEdit(n)
    \/ VendorDelete

SpecLedger == InitLedger /\ [][NextLedger]_vars

\* a payment submission of session s has its insert answered in this step
InsertAnswered(s) == pm[s].pc = "insert_wait" /\ pm'[s].pc = "update_wait"

\* C19: a payment is append-only: every step leaves the payments table as it is, or
\* is the answered insert of a payment submission and adds one row behind the rows
\* there are, or is the delete of a customer and removes the rows of that customer
\* and no other; no step of a payment submission, a customer edit, a reminder or a
\* vendor edit changes a field of a row that is in the table.
C19_PaymentsAppendOnly ==
    [][ \/ payments' = payments
        \/ /\ \E s \in Sessions : InsertAnswered(s)
           /\ Len(payments') = Len(payments) + 1
           /\ SubSeq(payments', 1, Len(payments)) = payments
        \/ \E c \in DOMAIN customers \ DOMAIN customers' :
              payments' = SelectSeq(payments, LAMBDA r : r.customer_id # c) ]_vars

C19_Witness ==
    /\ "c3" \notin DOMAIN customers
    /\ Len(payments) = 2
    /\ payments[1] = LedgerRows[1]
    /\ payments[2].customer_id = "c1" /\ payments[2].created_by = "u2"
    /\ quick.pc = "update_wait"
    /\ env.vendor # VendorA

----------------------------------------------------------------------------
(* The message templates on their own: templateExpiring and templateExpired over *)
(* the days of three months (SpecTemplates)                                       *)

MaxDaysLeft == 3     \* the day counts handed to the templates lie in -MaxDaysLeft..MaxDaysLeft
LastMonth == 3       \* the end dates lie in January..LastMonth of 2024

NoText == [kind |-> "", fullName |-> <<>>, daysLeft |-> 0, endDate |-> 0, day |-> 0,
           vendor |-> NoVendor, text |-> EmptyText]

\* a call of a template that has not returned: its arguments, the end date an instant
\* of the day `day` of its month
InitTemplates ==
    /\ Blank
    /\ now = StartDay * DayLen
    /\ \E m \in 1..LastMonth, daysLeft \in (0 - MaxDaysLeft)..MaxDaysLeft, vendor \in Vendors :
       \E d \in 1..DaysInMonth(2024, m), tick \in 0..(DayLen - 1) :
          view = [NoText EXCEPT !.kind = "call", !.fullName = NameOf["c1"], !.daysLeft = daysLeft,
                                !.endDate = DateOf(DayNum(2024, m, d)) + tick, !.day = d,
                                !.vendor = vendorDataOf(vendor)]

\* templateExpiring(fullName, daysLeft, endDate, vendor) returns
RenderExpiring ==
    /\ view.kind = "call"
    /\ view' = [view EXCEPT !.kind = "expiring",
                            !.text = templateExpiring(view.fullName, view.daysLeft, view.endDate, view.vendor)]
    /\ UNCHANGED <<vendors, accounts, vm, now, customers, payments, customerUpdates, smsLog, pm, cm, sm, quick, env, reads>>

\* templateExpired(fullName, daysAgo, endDate, vendor) returns, called with a day count
\* that is not negative
RenderExpired ==
    /\ view.kind = "call"
    /\ view.daysLeft >= 0
    /\ view' = [view EXCEPT !.kind = "expired",
                            !.text = templateExpired(view.fullName, view.daysLeft, view.endDate, view.vendor)]
    /\ UNCHANGED <<vendors, accounts, vm, now, customers, payments, customerUpdates, smsLog, pm, cm, sm, quick, env, reads>>

NextTemplates == RenderExpiring \/ RenderExpired

SpecTemplates == InitTemplates /\ [][NextTemplates]_vars

\* the suffix of the English ordinal of a day of the month
EnglishSuffix(d) ==
    IF d % 100 \in {11, 12, 13} THEN "th"
    ELSE IF d % 10 = 1 THEN "st"
    ELSE IF d % 10 = 2 THEN "nd"
    ELSE IF d % 10 = 3 THEN "rd"
    ELSE "th"

\* C22: for every day of the month d in 1..31 the rendered date carries d with the
\* suffix 'st' for d in {1,21,31}, 'nd' for d in {2,22}, 'rd' for d in {3,23} and 'th'
\* for every other d (11, 12 and 13 included), which is the English ordinal rule.
C22_OrdinalSuffix ==
    view.kind \in {"expiring", "expired"} =>
        LET date == view.text.date
        IN  /\ date.day = view.day /\ date.day \in 1..31
            /\ date.suffix = CASE date.day \in {1, 21, 31} -> "st"
                                [] date.day \in {2, 22}     -> "nd"
                                [] date.day \in {3, 23}     -> "rd"
                                [] OTHER                    -> "th"
            /\ date.suffix = EnglishSuffix(date.day)

C22_Witness ==
    /\ view.kind = "expired"
    /\ view.day = 11 /\ view.text.date.day = 11 /\ view.text.date.suffix = "th"
    /\ view.text.date.month = "February"

\* C29: for every daysLeft <= 0, templateExpiring(name, daysLeft, endDate, vendor) is
\* exactly templateExpired(name, abs(daysLeft), endDate, vendor); for every
\* daysLeft > 0 it is the Expiring text with that day count, with the singular 'day'
\* exactly when the count is 1.
C29_ExpiringFallsBackToExpired ==
    view.kind = "expiring" =>
        IF view.daysLeft <= 0
        THEN view.text = templateExpired(view.fullName, Abs(view.daysLeft), view.endDate, view.vendor)
        ELSE /\ view.text.kind = "expiring"
             /\ view.text.count = view.daysLeft
             /\ view.text.unit = "day" <=> view.daysLeft = 1
             /\ view.text.unit \in {"day", "days"}
             /\ view.text.name = firstName(view.fullName)
             /\ view.text.date = toOrdinalDate(view.endDate)

C29_Witness ==
    /\ view.kind = "expiring"
    /\ view.daysLeft = 0 - 2
    /\ view.text.kind = "expired" /\ view.text.count = 2 /\ view.text.unit = "days"

----------------------------------------------------------------------------
(* Payments recorded by a vendor's admin and by a super admin over the customers *)
(* of two vendors (SpecTenancy)                                                   *)

InitTenancy ==
    /\ now = StartDay * DayLen
    /\ \E e1 \in StartExpiries :
          customers = [c \in {"c1", "c3"} |->
                          [PayRow(c, e1) EXCEPT !.vendor_id = IF c = "c1" THEN "v1" ELSE "v2"]]
    /\ payments = <<>>
    /\ customerUpdates = <<>>
    /\ smsLog = <<>>
    /\ pm = [s \in {"s1", "s3"} |-> PmClosed(dashboardList(customers, UserOf[s]))]
    /\ cm = CmClosed
    /\ sm = SmClosed
    /\ quick = QuickIdle
    /\ view = NoView
    /\ env \in PayEnvs
    /\ reads = {dashboardQuery(UserOf[s]) : s \in {"s1", "s3"}}
    /\ vendors = <<>>
    /\ accounts = {}
    /\ vm = VmClosed

NextTenancy ==
    \/ \E s \in {"s1", "s3"} : DashFetchCustomers(s)
    \/ \E s \in {"s1", "s3"}, c \in CustIds, m \in MonthsTried : PaymentSubmit(s, c, m)
    \/ \E s \in {"s1", "s3"} : PaymentRetry(s)
    \/ \E s \in {"s1", "s3"}, ok \in BOOLEAN : PaymentInsertReturn(s, ok)
    \/ \E s \in {"s1", "s3"}, ok \in BOOLEAN : PaymentUpdateReturn(s, ok)
    \/ \E s \in {"s1", "s3"}, o \in {"sent", "rejected", "unconfigured"} : PaymentConfirmationReturn(s, o)
    \/ \E s \in {"s1", "s3"}, o \in {"sent", "rejected", "unconfigured"} : PaymentActivationReturn(s, o)
    \/ \E s \in {"s1", "s3"} : PaymentClose(s)

SpecTenancy == InitTenancy /\ [][NextTenancy]_vars

\* C25: every payment row the payment modal inserts carries the vendor_id of the
\* customer it pays for, whatever the role and the vendor id of the signed-in user (a
\* super admin, who has none, included); no payment in the table belongs to another
\* vendor than its customer.
C25_PaymentVendorIsCustomers ==
    /\ \A s \in DOMAIN pm :
          pm[s].pc = "insert_wait" =>
             paymentDataOf(pm[s].customer, pm[s].formData, UserOf[s]).vendor_id = pm[s].customer.vendor_id
    /\ \A i \in 1..Len(payments) :
          payments[i].customer_id \in DOMAIN customers =>
             payments[i].vendor_id = customers[payments[i].customer_id].vendor_id

----------------------------------------------------------------------------
(* The views of a customer's status: the dashboard's counters and row badges, the *)
(* SMS modal's badges and selectors, the vendor statistics (SpecViews)           *)

DaysBefore == 2      \* the expiry dates lie DaysBefore days before to DaysAfter days after today
DaysAfter == 5

\* the filters of the counters (Dashboard.fetchCustomers lines 76-88, and the same
\* two of VendorStatsModal.fetchStats lines 48-53)
isCountedActive(row, n) == row.is_active /\ DateOf(row.expiry_date) > n

isCountedExpired_strict(row, n) == DateOf(row.expiry_date) < n

isCountedExpired(row, n) == DateOf(row.expiry_date) <= n

isCountedExpiringSoon(row, n) ==
    LET daysUntil == daysUntilOf(DateOf(row.expiry_date), n)
    IN  daysUntil <= 3 /\ daysUntil > 0

\* the stats fetchCustomers sets from the list it loaded, with the filtered lists the
\* counts are the lengths of
statsOf(list, n) ==
    LET active   == {c \in DOMAIN list : isCountedActive(list[c], n)}
        expired  == {c \in DOMAIN list : isCountedExpired(list[c], n)}
        expiring == {c \in DOMAIN list : isCountedExpiringSoon(list[c], n)}
    IN  [totalCustomers |-> Cardinality(DOMAIN list),
         activeCustomers |-> Cardinality(active), expiredCustomers |-> Cardinality(expired),
         expiringSoonCustomers |-> Cardinality(expiring),
         active |-> active, expired |-> expired, expiring |-> expiring]

\* the badge of a row of the SMS modal's list (lines 1111-1133)
smsBadgeOf(row, n) ==
    LET daysUntil  == daysUntilOf(DateOf(row.expiry_date), n)
        isExpiring == daysUntil <= 3 /\ daysUntil > 0
        isExpired  == DateOf(row.expiry_date) <= n
    IN  IF isExpired THEN "Expired" ELSE IF isExpiring THEN "Expiring" ELSE "Active"

\* the badge of a row of the vendor statistics table (part_001 lines 193-212)
vendorBadgeOf(row, n) ==
    LET daysUntil  == daysUntilOf(DateOf(row.expiry_date), n)
        isExpired  == daysUntil < 0
        isExpiring == daysUntil <= 3 /\ daysUntil >= 0
    IN  IF isExpired THEN "Expired" ELSE IF isExpiring THEN "Expiring" ELSE "Active"

NoStats == [totalCustomers |-> 0, activeCustomers |-> 0, expiredCustomers |-> 0,
            expiringSoonCustomers |-> 0, active |-> {}, expired |-> {}, expiring |-> {}]

\* what the views show: nothing yet
NoViews == [stats |-> NoStats, badges |-> <<>>, smsBadges |-> <<>>, selector |-> "",
            vendorStats |-> NoStats, vendorBadges |-> <<>>]

ViewIds == {"c1", "c2"}

InitViews ==
    /\ \E tick \in 0..(DayLen - 1) : now = StartDay * DayLen + tick
    /\ \E expiry \in [ViewIds -> (StartDay - DaysBefore)..(StartDay + DaysAfter)] :
          customers = [c \in ViewIds |-> [ReminderRow(c) EXCEPT !.expiry_date = expiry[c]]]
    /\ payments = <<>>
    /\ customerUpdates = <<>>
    /\ smsLog = <<>>
    /\ pm = [s \in {"s1"} |-> PmClosed(<<>>)]
    /\ cm = CmClosed
    /\ sm = SmClosed
    /\ quick = QuickIdle
    /\ view = NoViews
    /\ env = [vendor |-> VendorA, apiKey |-> TRUE]
    /\ reads = {}
    /\ vendors = <<>>
    /\ accounts = {}
    /\ vm = VmClosed

\* Dashboard.fetchCustomers sets the stats from the list it loaded
DashStats ==
    /\ pm["s1"].list = dashboardList(customers, UserOf["s1"])
    /\ view.stats = NoStats
    /\ view' = [view EXCEPT !.stats = statsOf(pm["s1"].list, now)]
    /\ UNCHANGED <<vendors, accounts, vm, now, customers, payments, customerUpdates, smsLog, pm, cm, sm, quick, env, reads>>

\* the rows of the dashboard's list are rendered with their badges (line 537)
DashBadges ==
    /\ pm["s1"].list = dashboardList(customers, UserOf["s1"])
    /\ view.badges = <<>>
    /\ view' = [view EXCEPT !.badges = [c \in DOMAIN pm["s1"].list |->
                    getSubscriptionStatus(DateOf(pm["s1"].list[c].expiry_date), now).status]]
    /\ UNCHANGED <<vendors, accounts, vm, now, customers, payments, customerUpdates, smsLog, pm, cm, sm, quick, env, reads>>

\* the rows of the SMS modal's list are rendered with their badges
SMSBadges ==
    /\ sm.pc = "form"
    /\ sm.customers # <<>>
    /\ view.smsBadges = <<>>
    /\ view' = [view EXCEPT !.smsBadges =
                    [c \in {sm.customers[i].id : i \in 1..Len(sm.customers)} |->
                        smsBadgeOf(findCustomer(sm.customers, c), now)]]
    /\ UNCHANGED <<vendors, accounts, vm, now, customers, payments, customerUpdates, smsLog, pm, cm, sm, quick, env, reads>>

\* the Select Expiring button of the SMS modal (lines 835-843)
selectAllExpiring ==
    /\ sm.pc = "form"
    /\ sm.customers # <<>>
    /\ view.selector # "expiring"
    /\ sm' = [sm EXCEPT !.selectedCustomers =
                 LET hits == SelectSeq(sm.customers, LAMBDA c : isCountedExpiringSoon(c, now))
                 IN  [i \in 1..Len(hits) |-> hits[i].id]]
    /\ view' = [view EXCEPT !.selector = "expiring"]
    /\ UNCHANGED <<vendors, accounts, vm, now, customers, payments, customerUpdates, smsLog, pm, cm, quick, env, reads>>

\* the Select Expired button of the SMS modal (lines 845-852)
selectAllExpired ==
    /\ sm.pc = "form"
    /\ sm.customers # <<>>
    /\ view.selector # "expired"
    /\ sm' = [sm EXCEPT !.selectedCustomers =
                 LET hits == SelectSeq(sm.customers, LAMBDA c : DateOf(c.expiry_date) <= now)
                 IN  [i \in 1..Len(hits) |-> hits[i].id]]
    /\ view' = [view EXCEPT !.selector = "expired"]
    /\ UNCHANGED <<vendors, accounts, vm, now, customers, payments, customerUpdates, smsLog, pm, cm, quick, env, reads>>

\* VendorStatsModal.fetchStats: the counters over the customers of the vendor, and
\* the table of its customers with their badges
VendorStats ==
    /\ view.vendorStats = NoStats
    /\ LET rows == {c \in DOMAIN customers : customers[c].vendor_id = VendorAId}
           list == [c \in rows |-> customers[c]]
       IN  view' = [view EXCEPT !.vendorStats = statsOf(list, now),
                                !.vendorBadges = [c \in rows |-> vendorBadgeOf(list[c], now)]]
    /\ UNCHANGED <<vendors, accounts, vm, now, customers, payments, customerUpdates, smsLog, pm, cm, sm, quick, env, reads>>

NextViews ==
    \/ DashFetchCustomers("s1")
    \/ DashStats
    \/ DashBadges
    \/ SMSFetchCustomers(TRUE)
    \/ SMSBadges
    \/ selectAllExpiring
    \/ selectAllExpired
    \/ VendorStats

SpecViews == InitViews /\ [][NextViews]_vars

\* the status a badge's label stands for
ClassOf(label) == IF label = "Expiring Soon" THEN "Expiring" ELSE label

\* the status a set of counters or a selector puts customer c in
CountedAs(c, expired, expiring) ==
    IF c \in expired THEN "Expired" ELSE IF c \in expiring THEN "Expiring" ELSE "Active"

\* C27: at one instant every view puts a customer in the same status: the badge of
\* the dashboard row (getSubscriptionStatus), the dashboard's counters, the badge and
\* the Select Expiring and Select Expired buttons of the SMS modal, and the vendor
\* statistics agree on Expired, Expiring Soon and Active, also when the day count is 0.
C27_ViewsAgree ==
    \A c \in DOMAIN view.badges :
        LET status == ClassOf(view.badges[c])
        IN  /\ view.stats # NoStats =>
                 /\ c \in view.stats.expired <=> status = "Expired"
                 /\ c \in view.stats.expiring <=> status = "Expiring"
            /\ c \in DOMAIN view.smsBadges => ClassOf(view.smsBadges[c]) = status
            /\ view.selector = "expired" => (c \in Range(sm.selectedCustomers) <=> status = "Expired")
            /\ view.selector = "expiring" => (c \in Range(sm.selectedCustomers) <=> status = "Expiring")
            /\ c \in DOMAIN view.vendorBadges => ClassOf(view.vendorBadges[c]) = status
            /\ view.vendorStats # NoStats => (c \in view.vendorStats.expired <=> status = "Expired")

\* C28: in the stats the dashboard and the vendor statistics compute over customers
\* the client wrote, activeCustomers + expiredCustomers = totalCustomers, every
\* customer being counted in exactly one of the two, and every customer counted in
\* expiringSoonCustomers is counted in activeCustomers.
C28_CountersPartition ==
    \A stats \in {view.stats, view.vendorStats} :
        /\ stats.activeCustomers + stats.expiredCustomers = stats.totalCustomers
        /\ stats.active \cap stats.expired = {}
        /\ stats.totalCustomers = Cardinality(stats.active \cup stats.expired)
        /\ stats.expiring \subseteq stats.active
        /\ stats.expiringSoonCustomers <= stats.activeCustomers

\* one customer whose expiry date is today, counted as expired, and one expiring
\* tomorrow, counted as active and expiring soon
C28_Witness ==
    /\ view.stats # NoStats /\ view.vendorStats # NoStats
    /\ view.stats.totalCustomers = 2
    /\ view.stats.expired = {"c1"} /\ customers["c1"].expiry_date = StartDay
    /\ view.stats.expiring = {"c2"} /\ view.stats.active = {"c2"}
    /\ view.vendorStats.expiredCustomers = 1

----------------------------------------------------------------------------
(* The super admin creates vendors with the VendorModal: the insert of the vendor, *)
(* then the registration of its first admin (SpecVendors)                         *)

MaxVendors == 3     \* submissions of the vendor form in one behaviour

VendorNames == {"Ama Net", "Kofi Net"}
AdminEmails == {"ama@x", "kofi@x"}

InitVendors ==
    /\ Blank
    /\ now = StartDay * DayLen
    /\ view = NoView

\* handleSubmit up to its first await: the insert of the vendor is sent
VendorSubmit(vendorName, adminEmail) ==
    /\ vm.pc = "form"
    /\ vm.subs < MaxVendors
    /\ vm' = [vm EXCEPT !.pc = "insert", !.error = FALSE, !.success = FALSE,
                        !.formData = [vendorName |-> vendorName, adminEmail |-> adminEmail],
                        !.subs = @ + 1]
    /\ UNCHANGED <<now, customers, payments, customerUpdates, smsLog, pm, cm, sm, quick, view, env, reads, vendors, accounts>>

\* the insert answers: an error is thrown and shown, else the row exists and
\* register is called with its id
VendorInsertReturn(ok) ==
    /\ vm.pc = "insert"
    /\ IF ok
       THEN /\ vendors' = Append(vendors, [id |-> Len(vendors) + 1, name |-> vm.formData.vendorName])
            /\ vm' = [vm EXCEPT !.pc = "register", !.vendorId = Len(vendors) + 1]
       ELSE /\ vm' = [vm EXCEPT !.pc = "form", !.error = TRUE]
            /\ UNCHANGED vendors
    /\ UNCHANGED <<now, customers, payments, customerUpdates, smsLog, pm, cm, sm, quick, view, env, reads, accounts>>

\* register answers (useAuth.register: auth.signUp with role and vendor_id): a
\* failure is thrown and shown, a success is announced and the modal closes
VendorRegisterReturn(ok) ==
    /\ vm.pc = "register"
    /\ IF ok
       THEN /\ accounts' = accounts \cup {[email |-> vm.formData.adminEmail, role |-> "admin",
                                            vendor_id |-> vm.vendorId]}
            /\ vm' = [vm EXCEPT !.pc = "form", !.success = TRUE]
       ELSE /\ vm' = [vm EXCEPT !.pc = "form", !.error = TRUE]
            /\ UNCHANGED accounts
    /\ UNCHANGED <<now, customers, payments, customerUpdates, smsLog, pm, cm, sm, quick, view, env, reads, vendors>>

NextVendors ==
    \/ \E vendorName \in VendorNames, adminEmail \in AdminEmails : VendorSubmit(vendorName, adminEmail)
    \/ \E ok \in BOOLEAN : VendorInsertReturn(ok)
    \/ \E ok \in BOOLEAN : VendorRegisterReturn(ok)

SpecVendors == InitVendors /\ [][NextVendors]_vars

\* C30: every vendor row created through the VendorModal exists together with a first
\* admin account registered with the id of that vendor: after any submission of the
\* form, one whose registration of the admin fails included, no vendor row is there
\* without its admin account.
C30_VendorHasAdmin ==
    vm.pc = "form" =>
        \A i \in 1..Len(vendors) :
            \E a \in accounts : a.role = "admin" /\ a.vendor_id = vendors[i].id

====
